---- MODULE Spec2Model ----
(***************************************************************************)
(* Model of the fingerboard designer page                                  *)
(* (ArtBoardBuilder/client/src/pages/designer.tsx): the layered scene      *)
(* (one image layer plus a list of text elements), the layer ordering      *)
(* handlers, the compositor, the image transform, the drag, the style      *)
(* controls, the loading of a saved design, the single export and the      *)
(* batch export.                                                           *)
(***************************************************************************)
EXTENDS Integers, Sequences, FiniteSets, TLC

VARIABLES
    textElements,     \* useState<TextElement[]>: sequence of
                      \*   [id, layer, x, y, fontSize, color, strokeColor]
    imageLayer,       \* useState(0)
    imageUrl,         \* useState("")
    selectedTextId,   \* useState<string | null>(null), null is "none"
    textInput,        \* useState("")
    clock,            \* Date.now(): number of ids handed out so far
    backgroundColor,  \* useState("#ffffff"), a sequence of characters
    showGuides,       \* useState(true)
    designName,       \* useState("")
    batchExportOpen,  \* useState(false)
    batchColors,      \* useState<string[]>([backgroundColor])
    batchExporting,   \* useState(false)
    mounted,          \* svgRef.current is set while the page is mounted
    batch,            \* the running handleBatchExport call: its locals and position
    hist,             \* the last handlers run, newest first, with the scene before each
    start,            \* the layers of the scene the behaviour started from
    textSize,         \* useState(6)
    textColor,        \* useState("#0f172a")
    imageScale,       \* useState(100), percent
    imageRotation,    \* useState(0), degrees
    imageOpacity,     \* useState(100), percent
    imageFlipped,     \* useState(false)
    imagePosition,    \* useState({ x: 8, y: 20 }), in hundredths of a board unit
    dragging,         \* useState<{type, id} | null>(null), null is NoDrag
    dragStart,        \* useState({ x: 0, y: 0 }), in hundredths of a board unit
    listener,         \* the handleDragMove registered on the window: the dragging and
                      \*   the dragStart of the render that made it, or NoListener
    export,           \* the running exportMutation: its locals and position
    reader,           \* uploadMutation and the FileReaders of its onError: the file
                      \*   whose upload is pending, the files being read
    currentShareId,   \* useState<string | null>(null), null is ""
    loaded            \* loadedDesignQuery.data, NoDesign while there is none

vars == << textElements, imageLayer, imageUrl, selectedTextId, textInput, clock,
           backgroundColor, showGuides, designName, batchExportOpen, batchColors,
           batchExporting, mounted, batch, hist, start,
           textSize, textColor, imageScale, imageRotation, imageOpacity, imageFlipped,
           imagePosition, dragging, dragStart, listener, export, reader, currentShareId, loaded >>

sceneVars == << textElements, imageLayer, imageUrl, selectedTextId, textInput, clock >>
boardVars == << backgroundColor, showGuides, designName >>
batchVars == << batchExportOpen, batchColors, batchExporting, mounted, batch >>
styleVars == << textSize, textColor >>
imageVars == << imageScale, imageRotation, imageOpacity, imageFlipped, imagePosition >>
dragVars == << dragging, dragStart, listener >>
ioVars == << export, reader, currentShareId, loaded >>
pageVars == << styleVars, imageVars, dragVars, ioVars >>

(***************************************************************************)
(* Bounds                                                                  *)
(***************************************************************************)
MaxCreated == 3      \* text boxes created in one behaviour
MaxStartTexts == 3   \* text elements of a scene a behaviour of SpecMoves starts from
MaxStartLayer == 3   \* largest layer value of such a scene
MaxDrift == 100      \* how far a drag takes an element from where it was created
MaxDragTexts == 2    \* text boxes of a behaviour with drags
MaxStyleTexts == 2   \* text boxes of a behaviour with style changes
MaxErrorTexts == 1   \* text boxes of a behaviour with failing operations
MaxLoadTexts == 2    \* text elements of a loaded design
MaxSaveTexts == 1     \* text boxes of a behaviour with a save
MaxUploadTexts == 1   \* text boxes of a behaviour with failing uploads
MaxResetTexts == 1    \* text boxes of a behaviour with resets
MaxLoadLayer == 2    \* largest layer value stored in a loaded design

NoId == "none"
NoPoint == [ x |-> 0, y |-> 0 ]
NoDrag == [ type |-> "none", id |-> NoId ]
NoListener == [ dragging |-> NoDrag, dragStart |-> NoPoint ]     \* no handler on the window
Undefined == "undefined"
DefaultTextColor == "#0f172a"
DefaultImagePosition == [ x |-> 800, y |-> 2000 ]
Ids == << "t1", "t2", "t3", "t4", "t5" >>
LoadedIds == << "s1", "s2", "s3", "s4" >>
Urls == { "public" }
NoFile == "none"
Files == { "a", "b" }          \* the files the user picks
OneFile == { "a" }             \* where one file is picked over and over
IdleReader == [ pending |-> NoFile, reading |-> {} ]
Typed == { "", "New Text" }

(***************************************************************************)
(* Helpers on sequences                                                    *)
(***************************************************************************)
Range(s) == { s[i] : i \in 1..Len(s) }

SetMax(S) == CHOOSE m \in S : \A x \in S : x <= m
SetMin(S) == CHOOSE m \in S : \A x \in S : m <= x

\* an insertion that puts an entry before the entries of its own layer
InsertAscBeforeEquals(e, s) ==
    LET later == { p \in 1..Len(s) : s[p].layer >= e.layer }
        k == IF later = {} THEN Len(s) + 1 ELSE SetMin(later)
    IN  SubSeq(s, 1, k - 1) \o << e >> \o SubSeq(s, k, Len(s))

\* Array.prototype.sort with the comparator (a, b) => a.layer - b.layer: stable
InsertAsc(e, s) ==
    LET later == { p \in 1..Len(s) : s[p].layer > e.layer }
        k == IF later = {} THEN Len(s) + 1 ELSE SetMin(later)
    IN  SubSeq(s, 1, k - 1) \o << e >> \o SubSeq(s, k, Len(s))

RECURSIVE SortAsc(_)
SortAsc(s) ==
    IF s = << >> THEN << >>
    ELSE InsertAsc(s[Len(s)], SortAsc(SubSeq(s, 1, Len(s) - 1)))

\* Array.prototype.sort with the comparator (a, b) => b.layer - a.layer: stable
InsertDesc(e, s) ==
    LET later == { p \in 1..Len(s) : s[p].layer < e.layer }
        k == IF later = {} THEN Len(s) + 1 ELSE SetMin(later)
    IN  SubSeq(s, 1, k - 1) \o << e >> \o SubSeq(s, k, Len(s))

RECURSIVE SortDesc(_)
SortDesc(s) ==
    IF s = << >> THEN << >>
    ELSE InsertDesc(s[Len(s)], SortDesc(SubSeq(s, 1, Len(s) - 1)))

(***************************************************************************)
(* Layer ordering: the pure part of the handlers.  Each returns the pair   *)
(* [texts, image] the handler leaves in textElements and imageLayer.       *)
(***************************************************************************)
Find(texts, id) == texts[SetMin({ i \in 1..Len(texts) : texts[i].id = id })]

Has(texts, id) == \E i \in 1..Len(texts) : texts[i].id = id

\* [...prev.map(t => ({id, layer, type: 'text'})), {id: 'image', layer: imageLayer, type: 'image'}]
AllElementLayers(texts, img) ==
    [ i \in 1..Len(texts) |-> [ id |-> texts[i].id, layer |-> texts[i].layer, type |-> "text" ] ]
        \o << [ id |-> "image", layer |-> img, type |-> "image" ] >>

\* textElements.map(t => ({ id: t.id, layer: t.layer }))
TextLayers(texts) ==
    [ i \in 1..Len(texts) |-> [ id |-> texts[i].id, layer |-> texts[i].layer ] ]

HigherLayers(all, layer) ==
    LET Keep(e) == e.layer > layer IN SortAsc(SelectSeq(all, Keep))

\* the lower layers sorted with the comparator of the higher ones
LowerLayersAscending(all, layer) ==
    LET Keep(e) == e.layer < layer IN SortAsc(SelectSeq(all, Keep))

LowerLayers(all, layer) ==
    LET Keep(e) == e.layer < layer IN SortDesc(SelectSeq(all, Keep))

\* the swap with its second branch lost: the neighbour keeps its layer
SwapLayersOneWay(prev, id, targetLayer, elementLayer) ==
    [ i \in 1..Len(prev) |->
        IF prev[i].id = id THEN [ prev[i] EXCEPT !.layer = targetLayer ] ELSE prev[i] ]

\* prev.map(t => t.id === id ? {...t, layer: targetLayer}
\*              : t.layer === targetLayer ? {...t, layer: elementLayer} : t)
SwapLayers(prev, id, targetLayer, elementLayer) ==
    [ i \in 1..Len(prev) |->
        IF prev[i].id = id THEN [ prev[i] EXCEPT !.layer = targetLayer ]
        ELSE IF prev[i].layer = targetLayer THEN [ prev[i] EXCEPT !.layer = elementLayer ]
        ELSE prev[i] ]

\* prev.map(t => t.id === other ? {...t, layer: oldImageLayer} : t)
GiveLayer(prev, other, oldImageLayer) ==
    [ i \in 1..Len(prev) |->
        IF prev[i].id = other THEN [ prev[i] EXCEPT !.layer = oldImageLayer ] ELSE prev[i] ]

\* [...textElements.map(t => t.layer), imageLayer]
AllLayers(texts, img) == { texts[i].layer : i \in 1..Len(texts) } \cup { img }

\* the move-up control enabled by the text layers alone
CanMoveUpAmongTexts(texts, img, text) ==
    text.layer < SetMax({ texts[i].layer : i \in 1..Len(texts) })

\* canMoveUp = text.layer < Math.max(...allLayers)
CanMoveUp(texts, img, text) == text.layer < SetMax(AllLayers(texts, img))

\* canMoveDown = text.layer > Math.min(...allLayers)
CanMoveDown(texts, img, text) == text.layer > SetMin(AllLayers(texts, img))

\* the move up without its early return: the top element is raised by one
MoveLayerUpResultBump(prev, img, id) ==
    IF ~Has(prev, id) THEN [ texts |-> prev, image |-> img ]
    ELSE LET element == Find(prev, id)
             higherLayers == HigherLayers(AllElementLayers(prev, img), element.layer)
             targetLayer == IF Len(higherLayers) = 0 THEN element.layer + 1 ELSE higherLayers[1].layer
         IN  [ texts |-> SwapLayers(prev, id, targetLayer, element.layer),
               image |-> IF Len(higherLayers) > 0 /\ higherLayers[1].type = "image"
                         THEN element.layer ELSE img ]

MoveLayerUpResult(prev, img, id) ==
    IF ~Has(prev, id) THEN [ texts |-> prev, image |-> img ]
    ELSE LET element == Find(prev, id)
             higherLayers == HigherLayers(AllElementLayers(prev, img), element.layer)
         IN  IF Len(higherLayers) = 0 THEN [ texts |-> prev, image |-> img ]
             ELSE LET nextHigher == higherLayers[1]
                      targetLayer == nextHigher.layer
                  IN  [ texts |-> SwapLayers(prev, id, targetLayer, element.layer),
                        image |-> IF nextHigher.type = "image" THEN element.layer ELSE img ]

MoveLayerDownResult(prev, img, id) ==
    IF ~Has(prev, id) THEN [ texts |-> prev, image |-> img ]
    ELSE LET element == Find(prev, id)
             lowerLayers == LowerLayers(AllElementLayers(prev, img), element.layer)
         IN  IF Len(lowerLayers) = 0 THEN [ texts |-> prev, image |-> img ]
             ELSE LET nextLower == lowerLayers[1]
                      targetLayer == nextLower.layer
                  IN  [ texts |-> SwapLayers(prev, id, targetLayer, element.layer),
                        image |-> IF nextLower.type = "image" THEN element.layer ELSE img ]

MoveImageLayerUpResult(texts, img) ==
    LET higherLayers == HigherLayers(TextLayers(texts), img)
    IN  IF Len(higherLayers) = 0 THEN [ texts |-> texts, image |-> img ]
        ELSE LET nextHigher == higherLayers[1]
             IN  [ texts |-> GiveLayer(texts, nextHigher.id, img), image |-> nextHigher.layer ]

MoveImageLayerDownResult(texts, img) ==
    LET lowerLayers == LowerLayers(TextLayers(texts), img)
    IN  IF Len(lowerLayers) = 0 THEN [ texts |-> texts, image |-> img ]
        ELSE LET nextLower == lowerLayers[1]
             IN  [ texts |-> GiveLayer(texts, nextLower.id, img), image |-> nextLower.layer ]

\* textElements.length > 0 ? Math.max(...textElements.map(t => t.layer)) : -1, plus 1
NewTextLayer(texts) ==
    (IF Len(texts) > 0 THEN SetMax({ texts[i].layer : i \in 1..Len(texts) }) ELSE -1) + 1

\* the literal of addTextBox; textStroke is "none" and has no control on the page
NewTextBox(id, color, texts) ==
    [ id |-> id, layer |-> NewTextLayer(texts), x |-> 1600, y |-> 5000,
      fontSize |-> 6, color |-> color, strokeColor |-> Undefined ]

\* textColor === "#ffffff" ? "#000000" : "#ffffff"
StrokeColorFor(color) == IF color = "#ffffff" THEN "#000000" ELSE "#ffffff"

\* the literal of addTextElement
NewTextElement(id, size, color, texts) ==
    [ id |-> id, layer |-> NewTextLayer(texts), x |-> 1600, y |-> 5250,
      fontSize |-> size, color |-> color, strokeColor |-> StrokeColorFor(color) ]

(***************************************************************************)
(* History: which handler ran last and the scene it started from           *)
(***************************************************************************)
Entry(name, id) ==
    [ op |-> name, id |-> id, texts |-> textElements, image |-> imageLayer, url |-> imageUrl,
      pos |-> imagePosition, at |-> NoPoint ]

\* the entry of a pointer event: the board-space point of the pointer
EntryAt(name, id, pt) == [ Entry(name, id) EXCEPT !.at = pt ]

\* The entry before the last one is kept only where a handler continues the
\* one before it: a move down right after a move up of the same element, a
\* creation right after the first creation
Continues(name, id) ==
    /\ hist # << >>
    /\ \/ name = "moveLayerDown" /\ hist[1].op = "moveLayerUp" /\ hist[1].id = id
       \/ name = "moveImageLayerDown" /\ hist[1].op = "moveImageLayerUp"
       \/ name \in { "addTextBox", "addTextElement" }
            /\ hist[1].op \in { "addTextBox", "addTextElement" }
            /\ hist[1].texts = << >>

Log(name, id) ==
    hist' = << Entry(name, id) >> \o (IF Continues(name, id) THEN << hist[1] >> ELSE << >>)

\* The pointer-down of a drag session is kept behind its pointer-moves for
\* as long as no other handler runs in between
SessionStart ==
    IF hist # << >> /\ hist[1].op = "dragStart" THEN << hist[1] >>
    ELSE IF Len(hist) = 2 /\ hist[1].op = "dragMove" /\ hist[2].op = "dragStart" THEN << hist[2] >>
    ELSE << >>

LogAt(name, id, pt) ==
    hist' = << EntryAt(name, id, pt) >> \o (IF name = "dragMove" THEN SessionStart ELSE << >>)

(***************************************************************************)
(* Handlers of the scene                                                   *)
(***************************************************************************)
AddTextBox ==
    /\ clock < MaxCreated
    /\ clock' = clock + 1
    /\ textElements' = Append(textElements, NewTextBox(Ids[clock + 1], textColor, textElements))
    /\ selectedTextId' = Ids[clock + 1]
    /\ textInput' = "New Text"
    /\ Log("addTextBox", Ids[clock + 1])
    /\ UNCHANGED << imageLayer, imageUrl, start >>
    /\ UNCHANGED boardVars /\ UNCHANGED batchVars
    /\ UNCHANGED pageVars

AddTextElement ==
    /\ clock < MaxCreated
    /\ textInput # ""
    /\ clock' = clock + 1
    /\ textElements' = Append(textElements,
                               NewTextElement(Ids[clock + 1], textSize, textColor, textElements))
    /\ selectedTextId' = Ids[clock + 1]
    /\ textInput' = ""
    /\ Log("addTextElement", Ids[clock + 1])
    /\ UNCHANGED << imageLayer, imageUrl, start >>
    /\ UNCHANGED boardVars /\ UNCHANGED batchVars
    /\ UNCHANGED pageVars

\* the "Add Text Box" button in a behaviour of at most n text boxes
AddTextBoxUpTo(n) ==
    /\ Len(textElements) < n
    /\ AddTextBox

\* a delete that closes the gap it leaves: the texts above come down by one
DeleteTextBoxRenumbers(id) ==
    /\ Has(textElements, id)
    /\ textElements' = LET Keep(t) == t.id # id
                           gone == Find(textElements, id).layer
                           kept == SelectSeq(textElements, Keep)
                       IN  [ i \in 1..Len(kept) |->
                               IF kept[i].layer > gone THEN [ kept[i] EXCEPT !.layer = @ - 1 ]
                               ELSE kept[i] ]
    /\ selectedTextId' = IF selectedTextId = id THEN NoId ELSE selectedTextId
    /\ textInput' = IF selectedTextId = id THEN "" ELSE textInput
    /\ Log("deleteTextBox", id)
    /\ UNCHANGED << imageLayer, imageUrl, clock, start >>
    /\ UNCHANGED boardVars /\ UNCHANGED batchVars
    /\ UNCHANGED pageVars

\* setTextElements(textElements.filter(t => t.id !== id));
\* if (selectedTextId === id) { setSelectedTextId(null); setTextInput("") }
DeleteTextBox(id) ==
    /\ Has(textElements, id)
    /\ textElements' = LET Keep(t) == t.id # id IN SelectSeq(textElements, Keep)
    /\ selectedTextId' = IF selectedTextId = id THEN NoId ELSE selectedTextId
    /\ textInput' = IF selectedTextId = id THEN "" ELSE textInput
    /\ Log("deleteTextBox", id)
    /\ UNCHANGED << imageLayer, imageUrl, clock, start >>
    /\ UNCHANGED boardVars /\ UNCHANGED batchVars
    /\ UNCHANGED pageVars

MoveLayerUp(id) ==
    /\ Has(textElements, id)
    /\ LET r == MoveLayerUpResult(textElements, imageLayer, id)
       IN  textElements' = r.texts /\ imageLayer' = r.image
    /\ Log("moveLayerUp", id)
    /\ UNCHANGED << imageUrl, selectedTextId, textInput, clock, start >>
    /\ UNCHANGED boardVars /\ UNCHANGED batchVars
    /\ UNCHANGED pageVars

MoveLayerDown(id) ==
    /\ Has(textElements, id)
    /\ LET r == MoveLayerDownResult(textElements, imageLayer, id)
       IN  textElements' = r.texts /\ imageLayer' = r.image
    /\ Log("moveLayerDown", id)
    /\ UNCHANGED << imageUrl, selectedTextId, textInput, clock, start >>
    /\ UNCHANGED boardVars /\ UNCHANGED batchVars
    /\ UNCHANGED pageVars

MoveImageLayerUp ==
    /\ LET r == MoveImageLayerUpResult(textElements, imageLayer)
       IN  textElements' = r.texts /\ imageLayer' = r.image
    /\ Log("moveImageLayerUp", "image")
    /\ UNCHANGED << imageUrl, selectedTextId, textInput, clock, start >>
    /\ UNCHANGED boardVars /\ UNCHANGED batchVars
    /\ UNCHANGED pageVars

MoveImageLayerDown ==
    /\ LET r == MoveImageLayerDownResult(textElements, imageLayer)
       IN  textElements' = r.texts /\ imageLayer' = r.image
    /\ Log("moveImageLayerDown", "image")
    /\ UNCHANGED << imageUrl, selectedTextId, textInput, clock, start >>
    /\ UNCHANGED boardVars /\ UNCHANGED batchVars
    /\ UNCHANGED pageVars

\* a file picked while no upload is pending, and the onSuccess of its
\* upload, in one step
UploadSuccess(url) ==
    /\ reader.pending = NoFile
    /\ imageUrl' = url
    /\ Log("upload", "image")
    /\ UNCHANGED << textElements, imageLayer, selectedTextId, textInput, clock, start >>
    /\ UNCHANGED boardVars /\ UNCHANGED batchVars
    /\ UNCHANGED pageVars

\* the upload failing with the centre of the image reset for the preview
UploadFailedRecentres ==
    /\ reader = IdleReader
    /\ reader' = [ reader EXCEPT !.reading = { "a" } ]
    /\ imagePosition' = DefaultImagePosition
    /\ Log("uploadFailed", "image")
    /\ UNCHANGED start
    /\ UNCHANGED sceneVars /\ UNCHANGED boardVars /\ UNCHANGED batchVars
    /\ UNCHANGED << styleVars, imageScale, imageRotation, imageOpacity, imageFlipped,
                    dragVars, export, currentShareId, loaded >>

\* a file picked while no upload is pending and no file is being read, and
\* the onError of its upload, in one step: "Upload failed" is reported and
\* the file is read for a local preview
UploadFailed ==
    /\ reader = IdleReader
    /\ reader' = [ reader EXCEPT !.reading = { "a" } ]
    /\ Log("uploadFailed", "image")
    /\ UNCHANGED start
    /\ UNCHANGED sceneVars /\ UNCHANGED boardVars /\ UNCHANGED batchVars
    /\ UNCHANGED << styleVars, imageVars, dragVars, export, currentShareId, loaded >>

\* reader.readAsDataURL(file): the file's own bytes as a data URL
DataUrl(file) == CASE file = "a" -> "data:a" [] file = "b" -> "data:b"

\* a reader.onload that shows the first file whatever file was read
ReaderLoadedOfFirst(file) ==
    /\ file \in reader.reading
    /\ reader' = [ reader EXCEPT !.reading = @ \ { file } ]
    /\ imageUrl' = IF mounted THEN DataUrl("a") ELSE imageUrl
    /\ Log("readerLoaded", "image")
    /\ UNCHANGED << textElements, imageLayer, selectedTextId, textInput, clock, start >>
    /\ UNCHANGED boardVars /\ UNCHANGED batchVars
    /\ UNCHANGED << styleVars, imageVars, dragVars, export, currentShareId, loaded >>

\* reader.onload of uploadMutation.onError: the data URL becomes the image
ReaderLoaded(file) ==
    /\ file \in reader.reading
    /\ reader' = [ reader EXCEPT !.reading = @ \ { file } ]
    /\ imageUrl' = IF mounted THEN DataUrl(file) ELSE imageUrl
    /\ Log("readerLoaded", "image")
    /\ UNCHANGED << textElements, imageLayer, selectedTextId, textInput, clock, start >>
    /\ UNCHANGED boardVars /\ UNCHANGED batchVars
    /\ UNCHANGED << styleVars, imageVars, dragVars, export, currentShareId, loaded >>

\* handleFileUpload of a file that passes the size and type tests: the
\* input is disabled while an upload is pending
HandleFileUpload(file) ==
    /\ mounted /\ ~batchExportOpen
    /\ reader.pending = NoFile
    /\ reader' = [ reader EXCEPT !.pending = file ]
    /\ Log("pickFile", file)
    /\ UNCHANGED start
    /\ UNCHANGED sceneVars /\ UNCHANGED boardVars /\ UNCHANGED batchVars
    /\ UNCHANGED << styleVars, imageVars, dragVars, export, currentShareId, loaded >>

\* uploadMutation.onSuccess of the pending upload
UploadResolved(url) ==
    /\ reader.pending # NoFile
    /\ reader' = [ reader EXCEPT !.pending = NoFile ]
    /\ imageUrl' = IF mounted THEN url ELSE imageUrl
    /\ Log("uploadResolved", reader.pending)
    /\ UNCHANGED << textElements, imageLayer, selectedTextId, textInput, clock, start >>
    /\ UNCHANGED boardVars /\ UNCHANGED batchVars
    /\ UNCHANGED << styleVars, imageVars, dragVars, export, currentShareId, loaded >>

\* uploadMutation.onError of the pending upload: the file that was passed
\* to mutate is read for a local preview (a file is read once at a time)
UploadRejected ==
    /\ reader.pending # NoFile
    /\ reader.pending \notin reader.reading
    /\ reader' = [ reader EXCEPT !.pending = NoFile, !.reading = @ \cup { reader.pending } ]
    /\ Log("uploadRejected", reader.pending)
    /\ UNCHANGED start
    /\ UNCHANGED sceneVars /\ UNCHANGED boardVars /\ UNCHANGED batchVars
    /\ UNCHANGED << styleVars, imageVars, dragVars, export, currentShareId, loaded >>

\* onChange of the "Edit selected text..." input, rendered while a text is selected
EditText(v) ==
    /\ selectedTextId # NoId
    /\ textInput' = v
    /\ Log("editText", selectedTextId)
    /\ UNCHANGED << textElements, imageLayer, imageUrl, selectedTextId, clock, start >>
    /\ UNCHANGED boardVars /\ UNCHANGED batchVars
    /\ UNCHANGED pageVars

(***************************************************************************)
(* Board settings and the batch export                                     *)
(***************************************************************************)
White == << "#", "f" >>                                   \* "#ffffff"
ColorInputs == { White, << "#", "a" >> }                  \* values of a colour input
Names == { "", "my" }                                      \* values of the design name input

\* a state setter of the page: ignored once the page is unmounted
SetState(old, new) == IF mounted THEN new ELSE old

\* color.replace('#', ''): the first '#' removed
ReplaceHash(color) ==
    LET at == { i \in 1..Len(color) : color[i] = "#" }
    IN  IF at = {} THEN color
        ELSE SubSeq(color, 1, SetMin(at) - 1) \o SubSeq(color, SetMin(at) + 1, Len(color))

\* `${designName || 'design'}-${colorName}.png`
FileName(name, color) ==
    << IF name = "" THEN "design" ELSE name, "-" >> \o ReplaceHash(color) \o << ".png" >>

\* viewBox="0 0 32 105"
Board == [ width |-> 32, height |-> 105 ]

\* a batch canvas as wide as the one of the single export but square
BatchCanvasSquare == [ width |-> 800, height |-> 800 ]

\* canvas.width = 800; canvas.height = 2625 of handleBatchExport
BatchCanvas == [ width |-> 800, height |-> 2625 ]

\* canvas.width = 800; canvas.height = 2625 of exportMutation
ExportCanvas == [ width |-> 800, height |-> 2625 ]

\* drawImage(img, 0, 0, canvas.width, canvas.height) and canvas.toBlob: the
\* serialized board as a PNG of the size of the canvas
ToBlob(svgData, canvas) ==
    [ color |-> svgData.color, guides |-> svgData.guides,
      width |-> canvas.width, height |-> canvas.height ]

NoBlob == [ color |-> White, guides |-> TRUE, width |-> 0, height |-> 0 ]

\* zip.file(name, blob): an entry of the same name is replaced
ZipFile(zip, name, blob) == { e \in zip : e.name # name } \cup { [ name |-> name, blob |-> blob ] }

IdleBatch ==
    [ pc |-> "idle", i |-> 0, colors |-> << >>, name |-> "",
      originalColor |-> White, originalShowGuides |-> TRUE,
      startColor |-> White, startGuides |-> TRUE,
      zip |-> {}, svgData |-> [ color |-> White, guides |-> TRUE ],
      inflight |-> {}, archive |-> {}, toast |-> "none", errors |-> 0, overlapped |-> FALSE ]

Running == batch.pc \in { "hide", "frame", "settle", "capture", "zip" }

\* onChange of the background colour input
SetBackgroundColor(c) ==
    /\ mounted /\ ~batchExportOpen
    /\ c # backgroundColor
    /\ backgroundColor' = c
    /\ Log("settings", "board")
    /\ UNCHANGED << showGuides, designName, start >>
    /\ UNCHANGED sceneVars /\ UNCHANGED batchVars
    /\ UNCHANGED pageVars

\* onValueChange of the design guides select
SetShowGuides(v) ==
    /\ mounted /\ ~batchExportOpen
    /\ v # showGuides
    /\ showGuides' = v
    /\ Log("settings", "board")
    /\ UNCHANGED << backgroundColor, designName, start >>
    /\ UNCHANGED sceneVars /\ UNCHANGED batchVars
    /\ UNCHANGED pageVars

\* onClick of the "Batch Export" button
OpenBatchDialog ==
    /\ mounted /\ ~batchExportOpen
    /\ batchColors' = << backgroundColor >>
    /\ batchExportOpen' = TRUE
    /\ Log("settings", "board")
    /\ UNCHANGED << batchExporting, mounted, batch, start >>
    /\ UNCHANGED sceneVars /\ UNCHANGED boardVars
    /\ UNCHANGED pageVars

\* onOpenChange(false) of the dialog (Escape, overlay, close button)
CloseBatchDialog ==
    /\ mounted /\ batchExportOpen
    /\ batchExportOpen' = FALSE
    /\ Log("settings", "board")
    /\ UNCHANGED << batchColors, batchExporting, mounted, batch, start >>
    /\ UNCHANGED sceneVars /\ UNCHANGED boardVars
    /\ UNCHANGED pageVars

\* onChange of the batch colour input: a colour not yet in the list is appended
AddBatchColor(c) ==
    /\ mounted /\ batchExportOpen
    /\ batchColors' = IF c \in Range(batchColors) THEN batchColors ELSE Append(batchColors, c)
    /\ Log("settings", "board")
    /\ UNCHANGED << batchExportOpen, batchExporting, mounted, batch, start >>
    /\ UNCHANGED sceneVars /\ UNCHANGED boardVars
    /\ UNCHANGED pageVars

\* onClick of a selected colour: batchColors.filter((_, idx) => idx !== i)
RemoveBatchColor(i) ==
    /\ mounted /\ batchExportOpen
    /\ i \in 1..Len(batchColors)
    /\ batchColors' = SubSeq(batchColors, 1, i - 1) \o SubSeq(batchColors, i + 1, Len(batchColors))
    /\ Log("settings", "board")
    /\ UNCHANGED << batchExportOpen, batchExporting, mounted, batch, start >>
    /\ UNCHANGED sceneVars /\ UNCHANGED boardVars
    /\ UNCHANGED pageVars

\* onClick of the "Gallery" button: the page is unmounted, svgRef.current is null
Unmount ==
    /\ mounted /\ ~batchExportOpen
    /\ mounted' = FALSE
    /\ listener' = NoListener         \* the cleanup of the listeners effect
    /\ Log("settings", "board")
    /\ UNCHANGED << batchExportOpen, batchColors, batchExporting, batch, start >>
    /\ UNCHANGED sceneVars /\ UNCHANGED boardVars
    /\ UNCHANGED << styleVars, imageVars, dragging, dragStart, ioVars >>

\* the head of the for loop: the next colour is applied and a frame awaited,
\* or the loop is over and the archive is generated
LoopHead(b) ==
    IF b.i <= Len(b.colors)
    THEN /\ batch' = [ b EXCEPT !.pc = "frame" ]
         /\ backgroundColor' = SetState(backgroundColor, b.colors[b.i])
    ELSE /\ batch' = [ b EXCEPT !.pc = "zip" ]
         /\ UNCHANGED backgroundColor

\* the finally block with the colour left as the loop set it
FinallyKeepsColor ==
    /\ UNCHANGED backgroundColor
    /\ showGuides' = SetState(showGuides, batch.originalShowGuides)
    /\ batchExporting' = SetState(batchExporting, FALSE)

\* the finally block without setBatchExporting(false)
FinallyStillExporting ==
    /\ backgroundColor' = SetState(backgroundColor, batch.originalColor)
    /\ showGuides' = SetState(showGuides, batch.originalShowGuides)
    /\ UNCHANGED batchExporting

\* finally { setBackgroundColor(originalColor); setShowGuides(originalShowGuides); setBatchExporting(false) }
Finally ==
    /\ backgroundColor' = SetState(backgroundColor, batch.originalColor)
    /\ showGuides' = SetState(showGuides, batch.originalShowGuides)
    /\ batchExporting' = SetState(batchExporting, FALSE)

\* handleBatchExport up to its first await
StartBatch ==
    /\ mounted /\ batchExportOpen
    /\ ~batchExporting /\ Len(batchColors) # 0
    /\ batchExporting' = TRUE
    /\ showGuides' = FALSE
    /\ batch' = [ IdleBatch EXCEPT !.pc = "hide", !.i = 1, !.colors = batchColors, !.name = designName,
                                   !.originalColor = backgroundColor, !.originalShowGuides = showGuides,
                                   !.startColor = backgroundColor, !.startGuides = showGuides,
                                   !.overlapped = Running ]
    /\ Log("startBatch", "board")
    /\ UNCHANGED << backgroundColor, designName, batchExportOpen, batchColors, mounted, start >>
    /\ UNCHANGED sceneVars
    /\ UNCHANGED pageVars

\* the frame awaited after hiding the guides has come: the loop is entered
BatchHidden ==
    /\ batch.pc = "hide"
    /\ LoopHead(batch)
    /\ Log("batchStep", "board")
    /\ UNCHANGED << showGuides, designName, batchExportOpen, batchColors, batchExporting, mounted, start >>
    /\ UNCHANGED sceneVars
    /\ UNCHANGED pageVars

\* the loop going on only while the dialog is open
BatchFrameWhileOpen ==
    /\ batch.pc = "frame"
    /\ batchExportOpen
    /\ batch' = [ batch EXCEPT !.pc = "settle" ]
    /\ Log("batchStep", "board")
    /\ UNCHANGED << batchExportOpen, batchColors, batchExporting, mounted, start >>
    /\ UNCHANGED sceneVars /\ UNCHANGED boardVars
    /\ UNCHANGED pageVars

\* the frame awaited after setBackgroundColor has come: the settle delay starts
BatchFrame ==
    /\ batch.pc = "frame"
    /\ batch' = [ batch EXCEPT !.pc = "settle" ]
    /\ Log("batchStep", "board")
    /\ UNCHANGED << batchExportOpen, batchColors, batchExporting, mounted, start >>
    /\ UNCHANGED sceneVars /\ UNCHANGED boardVars
    /\ UNCHANGED pageVars

\* the raster conversion started and not awaited: the loop goes on at once
BatchSettledNoAwait ==
    /\ batch.pc = "settle"
    /\ IF ~mounted
       THEN LoopHead([ batch EXCEPT !.i = @ + 1 ])
       ELSE LoopHead([ batch EXCEPT !.i = @ + 1, !.inflight = @ \cup { batch.i },
                                    !.svgData = [ color |-> backgroundColor, guides |-> showGuides ] ])
    /\ Log("batchStep", "board")
    /\ UNCHANGED << showGuides, designName, batchExportOpen, batchColors, batchExporting, mounted, start >>
    /\ UNCHANGED sceneVars
    /\ UNCHANGED pageVars

\* the settle delay is over: without svgRef.current the variant is skipped,
\* otherwise the board is serialized and the raster conversion awaited
BatchSettled ==
    /\ batch.pc = "settle"
    /\ IF ~mounted
       THEN LoopHead([ batch EXCEPT !.i = @ + 1 ])
       ELSE /\ batch' = [ batch EXCEPT !.pc = "capture", !.inflight = @ \cup { batch.i },
                                       !.svgData = [ color |-> backgroundColor, guides |-> showGuides ] ]
            /\ UNCHANGED backgroundColor
    /\ Log("batchStep", "board")
    /\ UNCHANGED << showGuides, designName, batchExportOpen, batchColors, batchExporting, mounted, start >>
    /\ UNCHANGED sceneVars
    /\ UNCHANGED pageVars

\* the raster conversion resolved: the blob is added to the zip, next iteration
BatchCaptured ==
    /\ batch.pc = "capture"
    /\ LoopHead([ batch EXCEPT !.i = @ + 1, !.svgData = IdleBatch.svgData, !.inflight = @ \ { batch.i },
                               !.zip = ZipFile(@, FileName(batch.name, batch.colors[batch.i]),
                                                ToBlob(batch.svgData, BatchCanvas)) ])
    /\ Log("batchStep", "board")
    /\ UNCHANGED << showGuides, designName, batchExportOpen, batchColors, batchExporting, mounted, start >>
    /\ UNCHANGED sceneVars
    /\ UNCHANGED pageVars

\* the rejection caught inside the loop: it is reported and the next variant follows
BatchCaptureFailedSkips ==
    /\ batch.pc = "capture"
    /\ LoopHead([ batch EXCEPT !.i = @ + 1, !.toast = "failed", !.errors = @ + 1,
                               !.svgData = IdleBatch.svgData, !.inflight = @ \ { batch.i } ])
    /\ Log("batchStep", "board")
    /\ UNCHANGED << showGuides, designName, batchExportOpen, batchColors, batchExporting, mounted, start >>
    /\ UNCHANGED sceneVars
    /\ UNCHANGED pageVars

\* the raster conversion rejected: catch, then finally
BatchCaptureFailed ==
    /\ batch.pc = "capture"
    /\ batch' = [ batch EXCEPT !.pc = "done", !.toast = "failed", !.errors = @ + 1,
                               !.svgData = IdleBatch.svgData, !.inflight = @ \ { batch.i } ]
    /\ Finally
    /\ Log("batchFailed", "board")
    /\ UNCHANGED << designName, batchExportOpen, batchColors, mounted, start >>
    /\ UNCHANGED sceneVars
    /\ UNCHANGED pageVars

\* zip.generateAsync resolved: download, toast, the dialog is closed, then finally
BatchZipped ==
    /\ batch.pc = "zip"
    /\ batch' = [ batch EXCEPT !.pc = "done", !.toast = "complete", !.archive = batch.zip ]
    /\ batchExportOpen' = SetState(batchExportOpen, FALSE)
    /\ Finally
    /\ Log("batchComplete", "board")
    /\ UNCHANGED << designName, batchColors, mounted, start >>
    /\ UNCHANGED sceneVars
    /\ UNCHANGED pageVars

\* zip.generateAsync rejected: catch, then finally
BatchZipFailed ==
    /\ batch.pc = "zip"
    /\ batch' = [ batch EXCEPT !.pc = "done", !.toast = "failed", !.errors = @ + 1 ]
    /\ Finally
    /\ Log("batchFailed", "board")
    /\ UNCHANGED << designName, batchExportOpen, batchColors, mounted, start >>
    /\ UNCHANGED sceneVars
    /\ UNCHANGED pageVars

(***************************************************************************)
(* The scene editor: the page after construction and its scene handlers    *)
(***************************************************************************)
InitBoard ==
    /\ backgroundColor = White
    /\ showGuides = TRUE
    /\ designName = ""
    /\ batchExportOpen = FALSE
    /\ batchColors = << White >>
    /\ batchExporting = FALSE
    /\ mounted = TRUE
    /\ batch = IdleBatch

(***************************************************************************)
(* The image controls, the image transform and the drag                    *)
(* Lengths are in hundredths of a board unit, so that halves are integers. *)
(***************************************************************************)
ScaleInputs == { 10, 50, 100, 1000 }            \* values of the image size slider
OpacityInputs == { 10, 55, 100 }                \* values of the image opacity slider
RotationInputs == { -180, -90, 0, 90, 180 }     \* values of the rotation slider, quarter turns
Points == { [ x |-> a, y |-> b ] : a \in { 0, 100 }, b \in { 0, 100 } }   \* getSVGPoint results

PointsAcross == { pt \in Points : pt.y = 0 }     \* the pointer moving across the board

\* onChange of the image size slider, rendered while there is an image
SetImageScale(v) ==
    /\ mounted /\ ~batchExportOpen
    /\ imageUrl # ""
    /\ imageScale' = v
    /\ Log("imageControl", "image")
    /\ UNCHANGED << imageRotation, imageOpacity, imageFlipped, imagePosition, start >>
    /\ UNCHANGED sceneVars /\ UNCHANGED boardVars /\ UNCHANGED batchVars
    /\ UNCHANGED << styleVars, dragVars, ioVars >>

\* onChange of the image rotation slider
SetImageRotation(v) ==
    /\ mounted /\ ~batchExportOpen
    /\ imageUrl # ""
    /\ imageRotation' = v
    /\ Log("imageControl", "image")
    /\ UNCHANGED << imageScale, imageOpacity, imageFlipped, imagePosition, start >>
    /\ UNCHANGED sceneVars /\ UNCHANGED boardVars /\ UNCHANGED batchVars
    /\ UNCHANGED << styleVars, dragVars, ioVars >>

\* onChange of the image opacity slider, rendered while there is an image
SetImageOpacity(v) ==
    /\ mounted /\ ~batchExportOpen
    /\ imageUrl # ""
    /\ imageOpacity' = v
    /\ Log("imageControl", "image")
    /\ UNCHANGED << imageScale, imageRotation, imageFlipped, imagePosition, start >>
    /\ UNCHANGED sceneVars /\ UNCHANGED boardVars /\ UNCHANGED batchVars
    /\ UNCHANGED << styleVars, dragVars, ioVars >>

\* centerImage
CenterImage ==
    /\ mounted /\ ~batchExportOpen
    /\ imageUrl # ""
    /\ imagePosition' = DefaultImagePosition
    /\ Log("imageControl", "image")
    /\ UNCHANGED << imageScale, imageRotation, imageOpacity, imageFlipped, start >>
    /\ UNCHANGED sceneVars /\ UNCHANGED boardVars /\ UNCHANGED batchVars
    /\ UNCHANGED << styleVars, dragVars, ioVars >>

\* 16 * (imageScale / 100) and 40 * (imageScale / 100)
ImageWidth(scale) == 16 * scale
ImageHeight(scale) == 40 * scale

\* the image drawn from its centre as if it were its top-left corner
ImageTopLeftUncentred(position, scale) == position

\* imageX = imageCenterX - imageWidth / 2, imageY = imageCenterY - imageHeight / 2
ImageTopLeft(position, scale) ==
    [ x |-> position.x - ImageWidth(scale) \div 2, y |-> position.y - ImageHeight(scale) \div 2 ]

\* translate(imageX imageY) rotate(imageRotation imageWidth/2 imageHeight/2) scale(1 flipped ? -1 : 1)
ImageTransform(position, scale, rotation, flipped) ==
    [ translate |-> ImageTopLeft(position, scale),
      rotate |-> [ angle |-> rotation,
                   cx |-> ImageWidth(scale) \div 2, cy |-> ImageHeight(scale) \div 2 ],
      scale |-> [ x |-> 1, y |-> IF flipped THEN -1 ELSE 1 ] ]

\* cosine and sine of a quarter turn
Cos(angle) == CASE angle \in { -180, 180 } -> -1 [] angle = 0 -> 1 [] OTHER -> 0
Sin(angle) == CASE angle = 90 -> 1 [] angle = -90 -> -1 [] OTHER -> 0

\* a point of the image in board space: SVG applies the transform list from
\* the right, the scale first, then the rotation about (cx, cy), then the translation
Apply(t, pt) ==
    LET sx == t.scale.x * pt.x
        sy == t.scale.y * pt.y
        rx == t.rotate.cx + (sx - t.rotate.cx) * Cos(t.rotate.angle)
                          - (sy - t.rotate.cy) * Sin(t.rotate.angle)
        ry == t.rotate.cy + (sx - t.rotate.cx) * Sin(t.rotate.angle)
                          + (sy - t.rotate.cy) * Cos(t.rotate.angle)
    IN  [ x |-> t.translate.x + rx, y |-> t.translate.y + ry ]

\* the corners of <image width height> in its own space
Corners(scale) ==
    { [ x |-> a, y |-> b ] : a \in { 0, ImageWidth(scale) }, b \in { 0, ImageHeight(scale) } }

\* the drawn box of the image: the smallest upright box around its corners
DrawnBox(position, scale, rotation, flipped) ==
    LET drawn == { Apply(ImageTransform(position, scale, rotation, flipped), c) : c \in Corners(scale) }
    IN  [ left |-> SetMin({ c.x : c \in drawn }), right |-> SetMax({ c.x : c \in drawn }),
          top |-> SetMin({ c.y : c \in drawn }), bottom |-> SetMax({ c.y : c \in drawn }) ]

\* handleDragStart: mousedown or touchstart on the image or on a text; the
\* render of this discrete event and its listeners effect run before any
\* other event is handled
DragStart(type, id, pt) ==
    /\ mounted /\ ~batchExportOpen
    /\ IF type = "image" THEN imageUrl # "" /\ id = NoId ELSE Has(textElements, id)
    /\ dragging' = [ type |-> type, id |-> id ]
    /\ dragStart' = pt
    /\ listener' = [ dragging |-> dragging', dragStart |-> dragStart' ]
    /\ IF type = "text"
       THEN /\ selectedTextId' = id
            /\ textInput' \in Typed       \* text.content, which the records leave out
       ELSE UNCHANGED << selectedTextId, textInput >>
    /\ LogAt("dragStart", id, pt)
    /\ UNCHANGED << textElements, imageLayer, imageUrl, clock, start >>
    /\ UNCHANGED boardVars /\ UNCHANGED batchVars
    /\ UNCHANGED << styleVars, imageVars, ioVars >>

\* prev.map(t => t.id === dragging.id ? { ...t, x: t.x + dx, y: t.y + dy } : t)
MoveText(prev, id, dx, dy) ==
    [ i \in 1..Len(prev) |->
        IF prev[i].id = id THEN [ prev[i] EXCEPT !.x = @ + dx, !.y = @ + dy ] ELSE prev[i] ]

\* the handlers that the listeners effect of the current render registers
Registered ==
    IF dragging # NoDrag THEN [ dragging |-> dragging, dragStart |-> dragStart ] ELSE NoListener

\* the positions a behaviour stays within
InReach(texts, position) ==
    /\ position.x \in (800 - MaxDrift)..(800 + MaxDrift)
    /\ position.y \in (2000 - MaxDrift)..(2000 + MaxDrift)
    /\ \A i \in 1..Len(texts) :
          /\ texts[i].x \in (1600 - MaxDrift)..(1600 + MaxDrift)
          /\ texts[i].y \in (5000 - MaxDrift)..(5250 + MaxDrift)

\* a pointer-move that moves every text element
DragMoveAllTexts(pt) ==
    /\ listener # NoListener
    /\ LET dx == pt.x - listener.dragStart.x
           dy == pt.y - listener.dragStart.y
       IN  /\ IF listener.dragging.type = "image"
              THEN /\ imagePosition' = [ x |-> imagePosition.x + dx, y |-> imagePosition.y + dy ]
                   /\ UNCHANGED textElements
              ELSE /\ textElements' = [ i \in 1..Len(textElements) |->
                                          [ textElements[i] EXCEPT !.x = @ + dx, !.y = @ + dy ] ]
                   /\ UNCHANGED imagePosition
    /\ InReach(textElements', imagePosition')
    /\ dragStart' = pt
    /\ LogAt("dragMove", listener.dragging.id, pt)
    /\ UNCHANGED << imageLayer, imageUrl, selectedTextId, textInput, clock, dragging, listener, start >>
    /\ UNCHANGED boardVars /\ UNCHANGED batchVars
    /\ UNCHANGED << styleVars, imageScale, imageRotation, imageOpacity, imageFlipped, ioVars >>

\* handleDragMove: mousemove or touchmove on the window, handled by the
\* closure that is registered: its dragging is not null, its dragStart is
\* that of its render, and the positions are moved by functional updates
DragMove(pt) ==
    /\ listener # NoListener
    /\ LET dx == pt.x - listener.dragStart.x
           dy == pt.y - listener.dragStart.y
       IN  /\ IF listener.dragging.type = "image"
              THEN /\ imagePosition' = [ x |-> imagePosition.x + dx, y |-> imagePosition.y + dy ]
                   /\ UNCHANGED textElements
              ELSE /\ textElements' = MoveText(textElements, listener.dragging.id, dx, dy)
                   /\ UNCHANGED imagePosition
    /\ InReach(textElements', imagePosition')
    /\ dragStart' = pt
    /\ LogAt("dragMove", listener.dragging.id, pt)
    /\ UNCHANGED << imageLayer, imageUrl, selectedTextId, textInput, clock, dragging, listener, start >>
    /\ UNCHANGED boardVars /\ UNCHANGED batchVars
    /\ UNCHANGED << styleVars, imageScale, imageRotation, imageOpacity, imageFlipped, ioVars >>

\* the render after a pointer-move or a pointer-up, and the listeners
\* effect after it: the old handlers are removed from the window and, while
\* dragging, the handlers of this render are registered
ListenersEffect ==
    /\ mounted
    /\ listener # Registered
    /\ listener' = Registered
    /\ UNCHANGED << dragging, dragStart, hist, start >>
    /\ UNCHANGED sceneVars /\ UNCHANGED boardVars /\ UNCHANGED batchVars
    /\ UNCHANGED << styleVars, imageVars, ioVars >>

\* handleDragEnd: mouseup or touchend on the window while its listener is registered
DragEnd ==
    /\ listener # NoListener
    /\ dragging' = NoDrag
    /\ Log("dragEnd", listener.dragging.id)
    /\ UNCHANGED << dragStart, listener, start >>
    /\ UNCHANGED sceneVars /\ UNCHANGED boardVars /\ UNCHANGED batchVars
    /\ UNCHANGED << styleVars, imageVars, ioVars >>

\* touchcancel while dragging: the effect registers mousemove, mouseup,
\* touchmove and touchend only, so no handler runs
PointerCancel ==
    /\ dragging # NoDrag
    /\ Log("pointerCancel", dragging.id)
    /\ UNCHANGED start
    /\ UNCHANGED sceneVars /\ UNCHANGED boardVars /\ UNCHANGED batchVars
    /\ UNCHANGED pageVars

(***************************************************************************)
(* The style controls of the selected text box                             *)
(***************************************************************************)
SizeInputs == { 6, 10 }                              \* values of the text size slider
TextColorInputs == { DefaultTextColor, "#ffffff" }   \* values of the text colour input

\* onClick of a row of the text box list
SelectText(id) ==
    /\ mounted /\ ~batchExportOpen
    /\ Has(textElements, id)
    /\ selectedTextId' = id
    /\ textInput' \in Typed       \* text.content, which the records leave out
    /\ Log("selectText", id)
    /\ UNCHANGED << textElements, imageLayer, imageUrl, clock, start >>
    /\ UNCHANGED boardVars /\ UNCHANGED batchVars
    /\ UNCHANGED pageVars

\* textElements.map(t => t.id === selectedTextId ? { ...t, fontSize: size } : t)
WithFontSize(texts, id, size) ==
    [ i \in 1..Len(texts) |-> IF texts[i].id = id THEN [ texts[i] EXCEPT !.fontSize = size ] ELSE texts[i] ]

\* textElements.map(t => t.id === selectedTextId ? { ...t, color } : t)
WithColor(texts, id, color) ==
    [ i \in 1..Len(texts) |-> IF texts[i].id = id THEN [ texts[i] EXCEPT !.color = color ] ELSE texts[i] ]

\* The "update selected text" effect, run when textSize or textColor changed
\* (fontFamily and textStroke never do): the selected text gets the values
\* of all the controls
UpdateSelectedText(texts, id, size, color) ==
    IF id # NoId /\ Has(texts, id)
    THEN [ i \in 1..Len(texts) |->
             IF texts[i].id = id
             THEN [ texts[i] EXCEPT !.fontSize = size, !.color = color,
                                    !.strokeColor = StrokeColorFor(color) ]
             ELSE texts[i] ]
    ELSE texts

\* onChange of the text size slider, rendered while a text is selected; the
\* slider shows the size of the selected text
SetTextSize(size) ==
    /\ mounted /\ ~batchExportOpen
    /\ selectedTextId # NoId /\ Has(textElements, selectedTextId)
    /\ size # Find(textElements, selectedTextId).fontSize
    /\ textSize' = size
    /\ textElements' =
          LET sized == WithFontSize(textElements, selectedTextId, size)
          IN  IF size # textSize
              THEN UpdateSelectedText(sized, selectedTextId, size, textColor)
              ELSE sized
    /\ Log("setTextSize", selectedTextId)
    /\ UNCHANGED << imageLayer, imageUrl, selectedTextId, textInput, clock, textColor, start >>
    /\ UNCHANGED boardVars /\ UNCHANGED batchVars
    /\ UNCHANGED << imageVars, dragVars, ioVars >>

\* onChange of the text colour input; it shows the colour of the selected text
SetTextColor(color) ==
    /\ mounted /\ ~batchExportOpen
    /\ selectedTextId # NoId /\ Has(textElements, selectedTextId)
    /\ color # Find(textElements, selectedTextId).color
    /\ textColor' = color
    /\ textElements' =
          LET coloured == WithColor(textElements, selectedTextId, color)
          IN  IF color # textColor
              THEN UpdateSelectedText(coloured, selectedTextId, textSize, color)
              ELSE coloured
    /\ Log("setTextColor", selectedTextId)
    /\ UNCHANGED << imageLayer, imageUrl, selectedTextId, textInput, clock, textSize, start >>
    /\ UNCHANGED boardVars /\ UNCHANGED batchVars
    /\ UNCHANGED << imageVars, dragVars, ioVars >>

(***************************************************************************)
(* Loading a saved design: the effect on loadedDesignQuery.data            *)
(* A stored config is a record with the set `has` of the fields present;   *)
(* a stored text element says with hasLayer whether it holds a layer.      *)
(* imageScale and imageOpacity are in percent, lengths in hundredths.      *)
(***************************************************************************)
StoredText(id, hasLayer, layer) ==
    [ id |-> id, hasLayer |-> hasLayer, layer |-> layer, x |-> 1600, y |-> 5000,
      fontSize |-> 6, color |-> DefaultTextColor, strokeColor |-> Undefined ]

\* imageScale and imageOpacity are stored as fractions of one: the model
\* keeps them in hundredths
StoredConfig(has, guides, url, imgLayer, texts, flipped) ==
    [ has |-> has, backgroundColor |-> << "#", "a" >>, showGuides |-> guides, imageUrl |-> url,
      imageScale |-> 50, imageRotation |-> 90, imageOpacity |-> 100, imageFlipped |-> flipped,
      imageX |-> 900, imageY |-> 2000, imageLayer |-> imgLayer, textElements |-> texts ]

NoDesign == [ shareId |-> "", name |-> "", config |-> StoredConfig({}, TRUE, "", 0, << >>, FALSE) ]

\* the text lists of the stored designs: every element with or without a layer
StoredTextLists ==
    UNION { { [ i \in 1..n |-> StoredText(LoadedIds[i], h[i], IF h[i] THEN f[i] ELSE 0) ] :
                h \in [ 1..n -> BOOLEAN ], f \in [ 1..n -> 0..MaxLoadLayer ] } :
            n \in 0..MaxLoadTexts }

AlwaysStored == { "backgroundColor", "imageScale", "imageRotation", "imageOpacity",
                  "imageFlipped", "imageX", "imageY", "textElements" }

\* what GET /api/designs/:shareId may return
Designs ==
    { [ shareId |-> "share", name |-> "my",
        config |-> StoredConfig(AlwaysStored \cup opt \cup (IF url = "" THEN {} ELSE { "imageUrl" }),
                                guides, url, IF "imageLayer" \in opt THEN imgLayer ELSE 0, texts,
                                flipped) ] :
      opt \in SUBSET { "showGuides", "imageLayer" }, guides \in BOOLEAN, url \in { "" } \cup Urls,
      imgLayer \in 0..MaxLoadLayer, texts \in StoredTextLists, flipped \in BOOLEAN }

\* config.field || fallback for a number, config.field ?? fallback
NumberOr(config, field, fallback) ==
    IF field \in config.has /\ config[field] # 0 THEN config[field] ELSE fallback
Coalesce(config, field, fallback) ==
    IF field \in config.has THEN config[field] ELSE fallback

LoadedFields(t, layer) ==
    [ id |-> t.id, layer |-> layer, x |-> t.x, y |-> t.y,
      fontSize |-> t.fontSize, color |-> t.color, strokeColor |-> t.strokeColor ]

\* (config.textElements || []).map((t, index) => ({ ...t, layer: t.layer ?? index }))
LoadTexts(texts) ==
    [ i \in 1..Len(texts) |->
        LoadedFields(texts[i], IF texts[i].hasLayer THEN texts[i].layer ELSE i - 1) ]

\* the whole numbers s of 0..100 for which (s / 100) * 100 is not s in
\* double-precision arithmetic (55 / 100 * 100 is 55.00000000000001)
\* (of the larger values of the size slider only 1000 is used, and it is exact)
InexactHundredths == { 7, 14, 28, 29, 55, 56, 57, 58 }

\* fraction * 100 of a fraction kept in hundredths: the nearest whole
\* percent, and whether the double is that whole number
TimesHundred(hundredths) ==
    [ percent |-> hundredths, exact |-> hundredths \notin InexactHundredths ]

\* the values the load effect hands to the setters
LoadedState(config) ==
    [ backgroundColor |-> IF "backgroundColor" \in config.has /\ config.backgroundColor # << >>
                          THEN config.backgroundColor ELSE White,
      showGuides |-> Coalesce(config, "showGuides", TRUE),
      imageUrl |-> IF "imageUrl" \in config.has THEN config.imageUrl ELSE "",
      imageScale |-> TimesHundred(NumberOr(config, "imageScale", 100)),
      imageRotation |-> NumberOr(config, "imageRotation", 0),
      imageOpacity |-> TimesHundred(NumberOr(config, "imageOpacity", 100)),
      imageFlipped |-> ("imageFlipped" \in config.has /\ config.imageFlipped),
      imagePosition |-> [ x |-> NumberOr(config, "imageX", 800),
                          y |-> NumberOr(config, "imageY", 2000) ],
      imageLayer |-> NumberOr(config, "imageLayer", 0),
      textElements |-> IF "textElements" \in config.has
                       THEN LoadTexts(config.textElements) ELSE << >> ]

\* the query of a page opened with ?design=<shareId> has its data and the effect runs;
\* the whole percents of the scale and the opacity are kept
Load(design) ==
    /\ mounted
    /\ currentShareId = "" /\ loaded = NoDesign
    /\ loaded' = design
    /\ LET state == LoadedState(design.config)
       IN  /\ backgroundColor' = state.backgroundColor
           /\ showGuides' = state.showGuides
           /\ imageUrl' = state.imageUrl
           /\ imageScale' = state.imageScale.percent
           /\ imageRotation' = state.imageRotation
           /\ imageOpacity' = state.imageOpacity.percent
           /\ imageFlipped' = state.imageFlipped
           /\ imagePosition' = state.imagePosition
           /\ imageLayer' = state.imageLayer
           /\ textElements' = state.textElements
    /\ designName' = design.name
    /\ currentShareId' = design.shareId
    /\ Log("load", "design")
    /\ UNCHANGED << selectedTextId, textInput, clock, start >>
    /\ UNCHANGED batchVars
    /\ UNCHANGED << styleVars, dragVars, export, reader >>

(***************************************************************************)
(* The single export: exportMutation                                       *)
(***************************************************************************)
\* pc: idle, frame (awaiting requestAnimationFrame), encode (awaiting the
\* image and the blob), done.  startGuides is the value of showGuides when the
\* export started.
IdleExport ==
    [ pc |-> "idle", originalShowGuides |-> TRUE, startGuides |-> TRUE,
      svgData |-> [ color |-> White, guides |-> TRUE ], failedAt |-> "none", result |-> "none",
      blob |-> NoBlob ]

ExportPending == export.pc \in { "frame", "encode" }

\* the Export button, disabled while exportMutation.isPending; mutationFn up to
\* the await of requestAnimationFrame
StartExport ==
    /\ mounted /\ ~batchExportOpen
    /\ ~ExportPending
    /\ export' = [ IdleExport EXCEPT !.pc = "frame", !.originalShowGuides = showGuides,
                                     !.startGuides = showGuides ]
    /\ showGuides' = FALSE
    /\ Log("startExport", "export")
    /\ UNCHANGED << backgroundColor, designName, start >>
    /\ UNCHANGED sceneVars /\ UNCHANGED batchVars
    /\ UNCHANGED << styleVars, imageVars, dragVars, reader, currentShareId, loaded >>

\* setShowGuides(originalShowGuides)
RestoreGuides(original) == SetState(showGuides, original)

\* the frame has passed: serializeToString(svgRef.current) returns, the guides
\* are restored, the image starts loading
ExportSerialized ==
    /\ export.pc = "frame"
    /\ mounted
    /\ export' = [ export EXCEPT !.pc = "encode",
                                 !.svgData = [ color |-> backgroundColor, guides |-> showGuides ] ]
    /\ showGuides' = RestoreGuides(export.originalShowGuides)
    /\ Log("exportSerialized", "export")
    /\ UNCHANGED << backgroundColor, designName, start >>
    /\ UNCHANGED sceneVars /\ UNCHANGED batchVars
    /\ UNCHANGED << styleVars, imageVars, dragVars, reader, currentShareId, loaded >>

\* the frame has passed: serializeToString throws (svgRef.current is null once
\* the page is unmounted; the host serializer may fail), the statements after
\* it are skipped and onError reports "Export failed"
ExportSerializeFailed ==
    /\ export.pc = "frame"
    /\ export' = [ export EXCEPT !.pc = "done", !.failedAt = "serialize", !.result = "failed" ]
    /\ Log("exportFailed", "export")
    /\ UNCHANGED << start, reader, currentShareId, loaded >>
    /\ UNCHANGED sceneVars /\ UNCHANGED boardVars /\ UNCHANGED batchVars
    /\ UNCHANGED << styleVars, imageVars, dragVars >>

\* img.onload, canvas.toBlob with a blob: resolve, onSuccess downloads the file
ExportEncoded ==
    /\ export.pc = "encode"
    /\ export' = [ export EXCEPT !.pc = "done", !.result = "exported",
                                 !.blob = ToBlob(export.svgData, ExportCanvas) ]
    /\ Log("exportComplete", "export")
    /\ UNCHANGED << start, reader, currentShareId, loaded >>
    /\ UNCHANGED sceneVars /\ UNCHANGED boardVars /\ UNCHANGED batchVars
    /\ UNCHANGED << styleVars, imageVars, dragVars >>

\* img.onerror, no canvas context or no blob: reject, onError reports "Export failed"
ExportEncodeFailed ==
    /\ export.pc = "encode"
    /\ export' = [ export EXCEPT !.pc = "done", !.failedAt = "encode", !.result = "failed" ]
    /\ Log("exportFailed", "export")
    /\ UNCHANGED << start, reader, currentShareId, loaded >>
    /\ UNCHANGED sceneVars /\ UNCHANGED boardVars /\ UNCHANGED batchVars
    /\ UNCHANGED << styleVars, imageVars, dragVars >>

\* the useState defaults of the style, image, drag and export state
InitPage ==
    /\ textSize = 6
    /\ textColor = DefaultTextColor
    /\ imageScale = 100
    /\ imageRotation = 0
    /\ imageOpacity = 100
    /\ imageFlipped = FALSE
    /\ imagePosition = DefaultImagePosition
    /\ dragging = NoDrag
    /\ dragStart = [ x |-> 0, y |-> 0 ]
    /\ listener = NoListener
    /\ export = IdleExport
    /\ reader = IdleReader
    /\ currentShareId = ""
    /\ loaded = NoDesign

Init ==
    /\ textElements = << >>
    /\ imageLayer = 0
    /\ imageUrl = ""
    /\ selectedTextId = NoId
    /\ textInput = ""
    /\ clock = 0
    /\ InitBoard
    /\ InitPage
    /\ hist = << >>
    /\ start = [ texts |-> << >>, image |-> 0 ]

Next ==
    \/ AddTextBox
    \/ AddTextElement
    \/ \E id \in Range(Ids) : DeleteTextBox(id)
    \/ \E id \in Range(Ids) : MoveLayerUp(id)
    \/ \E id \in Range(Ids) : MoveLayerDown(id)
    \/ MoveImageLayerUp
    \/ MoveImageLayerDown
    \/ \E url \in Urls : UploadSuccess(url)
    \/ \E v \in Typed : EditText(v)

Spec == Init /\ [][Next]_vars

(***************************************************************************)
(* A scene with pairwise distinct layers and the four move handlers        *)
(***************************************************************************)
LayerValues(texts, img) == { texts[i].layer : i \in 1..Len(texts) } \cup { img }

Distinct(texts, img) ==
    /\ \A i, j \in 1..Len(texts) : i # j => texts[i].layer # texts[j].layer
    /\ \A i \in 1..Len(texts) : texts[i].layer # img

\* how many elements (texts and the image) hold layer v
Holders(texts, img, v) ==
    Cardinality({ i \in 1..Len(texts) : texts[i].layer = v }) + (IF img = v THEN 1 ELSE 0)

InitMoves ==
    /\ \E n \in 0..MaxStartTexts :
         \E f \in [ 1..n -> 0..MaxStartLayer ] :
            textElements = [ i \in 1..n |->
                               [ NewTextBox(Ids[i], DefaultTextColor, << >>) EXCEPT !.layer = f[i] ] ]
    /\ imageLayer \in 0..MaxStartLayer
    /\ Distinct(textElements, imageLayer)
    /\ imageUrl \in { "" } \cup Urls
    /\ selectedTextId = NoId
    /\ textInput = ""
    /\ clock = Len(textElements)
    /\ InitBoard
    /\ InitPage
    /\ hist = << >>
    /\ start = [ texts |-> textElements, image |-> imageLayer ]

NextMoves ==
    \/ \E id \in Range(Ids) : MoveLayerUp(id)
    \/ \E id \in Range(Ids) : MoveLayerDown(id)
    \/ MoveImageLayerUp
    \/ MoveImageLayerDown

SpecMoves == InitMoves /\ [][NextMoves]_vars

(***************************************************************************)
(* The batch export with the user at the board settings and the dialog     *)
(***************************************************************************)
NextBatch ==
    \/ \E c \in ColorInputs : SetBackgroundColor(c)
    \/ \E v \in BOOLEAN : SetShowGuides(v)
    \/ OpenBatchDialog
    \/ CloseBatchDialog
    \/ \E c \in ColorInputs : AddBatchColor(c)
    \/ \E i \in 1..Cardinality(ColorInputs) : RemoveBatchColor(i)
    \/ Unmount
    \/ StartBatch
    \/ BatchHidden
    \/ BatchFrame
    \/ BatchSettled
    \/ BatchCaptured
    \/ BatchCaptureFailed
    \/ BatchZipped
    \/ BatchZipFailed

InitBatch ==
    /\ textElements = << >>
    /\ imageLayer = 0
    /\ imageUrl = ""
    /\ selectedTextId = NoId
    /\ textInput = ""
    /\ clock = 0
    /\ backgroundColor = White
    /\ showGuides = TRUE
    /\ designName \in Names
    /\ batchExportOpen = FALSE
    /\ batchColors = << White >>
    /\ batchExporting = FALSE
    /\ mounted = TRUE
    /\ batch = IdleBatch
    /\ InitPage
    /\ hist = << >>
    /\ start = [ texts |-> << >>, image |-> 0 ]

SpecBatch == InitBatch /\ [][NextBatch]_vars

(***************************************************************************)
(* The single export with the user at the board settings                   *)
(***************************************************************************)
NextExport ==
    \/ \E c \in ColorInputs : SetBackgroundColor(c)
    \/ \E v \in BOOLEAN : SetShowGuides(v)
    \/ Unmount
    \/ StartExport
    \/ ExportSerialized
    \/ ExportSerializeFailed
    \/ ExportEncoded
    \/ ExportEncodeFailed

SpecExport == InitBatch /\ [][NextExport]_vars

(***************************************************************************)
(* The image with its controls and its drag                                *)
(***************************************************************************)
NextImage ==
    \/ \E url \in Urls : UploadSuccess(url)
    \/ \E v \in ScaleInputs : SetImageScale(v)
    \/ \E v \in RotationInputs : SetImageRotation(v)
    \/ CenterImage
    \/ \E pt \in Points : DragStart("image", NoId, pt)
    \/ \E pt \in Points : DragMove(pt)
    \/ ListenersEffect
    \/ DragEnd

SpecImage == Init /\ [][NextImage]_vars

(***************************************************************************)
(* Dragging the image and the text boxes                                   *)
(***************************************************************************)
NextDrag ==
    \/ \E url \in Urls : UploadSuccess(url)
    \/ AddTextBoxUpTo(MaxDragTexts)
    \/ \E id \in Range(Ids) : DeleteTextBox(id)
    \/ \E pt \in PointsAcross : DragStart("image", NoId, pt)
    \/ \E id \in Range(Ids), pt \in PointsAcross : DragStart("text", id, pt)
    \/ \E pt \in PointsAcross : DragMove(pt)
    \/ ListenersEffect
    \/ DragEnd
    \/ PointerCancel

SpecDrag == Init /\ [][NextDrag]_vars

(***************************************************************************)
(* A page opened on a saved design                                         *)
(***************************************************************************)
NextLoad ==
    \/ \E design \in Designs : Load(design)
    \/ \E id \in Range(LoadedIds) : MoveLayerUp(id)
    \/ \E id \in Range(LoadedIds) : MoveLayerDown(id)

SpecLoad == Init /\ [][NextLoad]_vars

(***************************************************************************)
(* Uploads that fail                                                       *)
(***************************************************************************)
NextUpload ==
    \/ \E file \in Files : HandleFileUpload(file)
    \/ \E url \in Urls : UploadResolved(url)
    \/ UploadRejected
    \/ \E file \in Files : ReaderLoaded(file)
    \/ AddTextBoxUpTo(MaxUploadTexts)
    \/ \E v \in ScaleInputs : SetImageScale(v)
    \/ MoveImageLayerUp
    \/ Unmount

SpecUpload == Init /\ [][NextUpload]_vars

\* a FileReader that has started reading delivers its load event
SpecUploadFair == SpecUpload /\ \A file \in Files : WF_vars(ReaderLoaded(file))

(***************************************************************************)
(* Saving a design                                                         *)
(***************************************************************************)
\* onChange of the design name input
SetDesignName(name) ==
    /\ mounted /\ ~batchExportOpen
    /\ name # designName
    /\ designName' = name
    /\ Log("settings", "board")
    /\ UNCHANGED << backgroundColor, showGuides, start >>
    /\ UNCHANGED sceneVars /\ UNCHANGED batchVars
    /\ UNCHANGED pageVars

\* a text element as JSON keeps it: every field, the layer among them
StoredFields(t) ==
    [ id |-> t.id, hasLayer |-> TRUE, layer |-> t.layer, x |-> t.x, y |-> t.y,
      fontSize |-> t.fontSize, color |-> t.color, strokeColor |-> t.strokeColor ]

\* getCurrentConfig: imageScale / 100 and imageOpacity / 100 in hundredths
CurrentConfig ==
    [ has |-> AlwaysStored \cup { "showGuides", "imageUrl", "imageLayer" },
      backgroundColor |-> backgroundColor, showGuides |-> showGuides, imageUrl |-> imageUrl,
      imageScale |-> imageScale, imageRotation |-> imageRotation,
      imageOpacity |-> imageOpacity, imageFlipped |-> imageFlipped,
      imageX |-> imagePosition.x, imageY |-> imagePosition.y, imageLayer |-> imageLayer,
      textElements |-> [ i \in 1..Len(textElements) |-> StoredFields(textElements[i]) ] ]

\* saveMutation of a design not yet saved: POST /api/designs with the
\* snapshot of getCurrentConfig, then onSuccess; the page is now at
\* ?design=<shareId> and its query holds the design that was stored
Save ==
    /\ mounted /\ ~batchExportOpen
    /\ designName # "" /\ currentShareId = ""
    /\ currentShareId' = "share"
    /\ loaded' = [ shareId |-> "share", name |-> designName, config |-> CurrentConfig ]
    /\ Log("save", "design")
    /\ UNCHANGED start
    /\ UNCHANGED sceneVars /\ UNCHANGED boardVars /\ UNCHANGED batchVars
    /\ UNCHANGED << styleVars, imageVars, dragVars, export, reader >>

NextSave ==
    \/ \E url \in Urls : UploadSuccess(url)
    \/ \E v \in ScaleInputs : SetImageScale(v)
    \/ \E v \in OpacityInputs : SetImageOpacity(v)
    \/ \E v \in BOOLEAN : SetShowGuides(v)
    \/ \E name \in Names : SetDesignName(name)
    \/ AddTextBoxUpTo(MaxSaveTexts)
    \/ Save

SpecSave == Init /\ [][NextSave]_vars

(***************************************************************************)
(* Single and batch export side by side                                    *)
(***************************************************************************)
NextRaster ==
    \/ \E c \in ColorInputs : SetBackgroundColor(c)
    \/ \E c \in ColorInputs : AddBatchColor(c)
    \/ OpenBatchDialog
    \/ CloseBatchDialog
    \/ StartExport
    \/ ExportSerialized
    \/ ExportSerializeFailed
    \/ ExportEncoded
    \/ ExportEncodeFailed
    \/ StartBatch
    \/ BatchHidden
    \/ BatchFrame
    \/ BatchSettled
    \/ BatchCaptured
    \/ BatchCaptureFailed
    \/ BatchZipped
    \/ BatchZipFailed

SpecRaster == Init /\ [][NextRaster]_vars

(***************************************************************************)
(* Resetting the design                                                    *)
(***************************************************************************)
\* handleReset: the setters it calls, and the page back at "/" where the
\* design query has no data; showGuides and imageLayer have no setter here
HandleReset ==
    /\ mounted /\ ~batchExportOpen
    /\ backgroundColor' = White
    /\ imageUrl' = ""
    /\ imageScale' = 100
    /\ imageRotation' = 0
    /\ imageOpacity' = 100
    /\ imageFlipped' = FALSE
    /\ imagePosition' = DefaultImagePosition
    /\ textElements' = << >>
    /\ selectedTextId' = NoId
    /\ textInput' = ""
    /\ designName' = ""
    /\ currentShareId' = ""
    /\ loaded' = NoDesign
    /\ Log("reset", "board")
    /\ UNCHANGED << showGuides, imageLayer, clock, start >>
    /\ UNCHANGED batchVars
    /\ UNCHANGED << styleVars, dragVars, export, reader >>

NextReset ==
    \/ \E url \in Urls : UploadSuccess(url)
    \/ \E v \in ScaleInputs : SetImageScale(v)
    \/ \E c \in ColorInputs : SetBackgroundColor(c)
    \/ \E v \in BOOLEAN : SetShowGuides(v)
    \/ AddTextBoxUpTo(MaxResetTexts)
    \/ MoveImageLayerUp
    \/ HandleReset

SpecReset == Init /\ [][NextReset]_vars

(***************************************************************************)
(* Text boxes and their style controls                                     *)
(***************************************************************************)
NextStyle ==
    \/ AddTextBoxUpTo(MaxStyleTexts)
    \/ \E id \in Range(Ids) : SelectText(id)
    \/ \E size \in SizeInputs : SetTextSize(size)
    \/ \E color \in TextColorInputs : SetTextColor(color)

SpecStyle == Init /\ [][NextStyle]_vars

(***************************************************************************)
(* The scene with the operations that can fail: upload, single export,     *)
(* batch export of the colour of the board, moves at the extremes          *)
(***************************************************************************)
NextErrors ==
    \/ AddTextBoxUpTo(MaxErrorTexts)
    \/ \E id \in Range(Ids) : MoveLayerUp(id)
    \/ \E id \in Range(Ids) : MoveLayerDown(id)
    \/ UploadFailed
    \/ \E file \in OneFile : ReaderLoaded(file)
    \/ \E pt \in PointsAcross : DragStart("image", NoId, pt)
    \/ \E pt \in PointsAcross : DragMove(pt)
    \/ ListenersEffect
    \/ DragEnd
    \/ StartExport
    \/ ExportSerialized
    \/ ExportSerializeFailed
    \/ ExportEncoded
    \/ ExportEncodeFailed
    \/ OpenBatchDialog
    \/ CloseBatchDialog
    \/ StartBatch
    \/ BatchHidden
    \/ BatchFrame
    \/ BatchSettled
    \/ BatchCaptured
    \/ BatchCaptureFailed
    \/ BatchZipped
    \/ BatchZipFailed

SpecErrors == Init /\ [][NextErrors]_vars

\* The awaited callbacks of a running export come: the animation frames, the
\* settle timer, the load or error of the image, the end of zip.generateAsync
BatchFairness ==
    /\ WF_vars(BatchHidden)
    /\ WF_vars(BatchFrame)
    /\ WF_vars(BatchSettled)
    /\ WF_vars(BatchCaptured \/ BatchCaptureFailed)
    /\ WF_vars(BatchZipped \/ BatchZipFailed)

SpecBatchFair == SpecBatch /\ BatchFairness

(***************************************************************************)
(* Compositor                                                              *)
(***************************************************************************)
Pushed ==
    (IF imageUrl # "" THEN << [ type |-> "image", layer |-> imageLayer, id |-> "image" ] >> ELSE << >>)
        \o [ i \in 1..Len(textElements) |->
                [ type |-> "text", layer |-> textElements[i].layer, id |-> textElements[i].id ] ]

\* the compositor without its sort
LayerElementsUnsorted == Pushed

LayerElements == SortAsc(Pushed)

(***************************************************************************)
(* Properties of the layer ordering                                        *)
(***************************************************************************)
ElementsOf(texts) == { texts[i].id : i \in 1..Len(texts) } \cup { "image" }

LayerIn(texts, img, e) == IF e = "image" THEN img ELSE Find(texts, e).layer

LayerSeq(texts) == [ i \in 1..Len(texts) |-> texts[i].layer ]

SameLayers(texts, img) ==
    /\ LayerSeq(textElements) = LayerSeq(texts)
    /\ [ i \in 1..Len(textElements) |-> textElements[i].id ] = [ i \in 1..Len(texts) |-> texts[i].id ]
    /\ imageLayer = img

MoveUps == { "moveLayerUp", "moveImageLayerUp" }
MoveDowns == { "moveLayerDown", "moveImageLayerDown" }
Creations == { "addTextBox", "addTextElement" }

HoldsMax(texts, img, e) == LayerIn(texts, img, e) = SetMax(LayerValues(texts, img))
HoldsMin(texts, img, e) == LayerIn(texts, img, e) = SetMin(LayerValues(texts, img))

\* C1: the layers of the image and of all text elements are pairwise distinct
\* in every state reached from the initial scene by creations, deletions and moves
C1_LayersPairwiseDistinct == Distinct(textElements, imageLayer)

\* C2: from a scene with pairwise distinct layers, any sequence of moves leaves
\* the multiset of layer values as it was and the layers pairwise distinct
C2_MovesPermuteLayers ==
    /\ \A v \in LayerValues(textElements, imageLayer) \cup LayerValues(start.texts, start.image) :
          Holders(textElements, imageLayer, v) = Holders(start.texts, start.image, v)
    /\ Distinct(textElements, imageLayer)

C2_Witness ==
    /\ hist # << >>
    /\ Len(textElements) >= 2
    /\ imageLayer # start.image
    /\ LayerSeq(textElements) # LayerSeq(start.texts)

\* the move in hist[1] exchanged the layers of exactly two elements: the moved
\* one and a holder of the nearest layer in the direction of the move
ExchangedWithNeighbour(h) ==
    LET E == ElementsOf(h.texts)
        before(e) == LayerIn(h.texts, h.image, e)
        after(e) == LayerIn(textElements, imageLayer, e)
        beyond == IF h.op \in MoveUps
                  THEN { before(e) : e \in { x \in E : before(x) > before(h.id) } }
                  ELSE { before(e) : e \in { x \in E : before(x) < before(h.id) } }
        target == IF h.op \in MoveUps THEN SetMin(beyond) ELSE SetMax(beyond)
    IN  \E y \in E \ { h.id } :
          /\ before(y) = target
          /\ after(h.id) = target
          /\ after(y) = before(h.id)
          /\ \A e \in E \ { h.id, y } : after(e) = before(e)

\* C3: a move up of an element below the maximum layer exchanges the layers of
\* exactly two elements, the moved one and the holder of the smallest layer
\* above it, and leaves every other layer; a move down is symmetric
C3_MoveSwapsExactlyTwo ==
    hist # << >> =>
      LET h == hist[1]
      IN  /\ (h.op \in MoveUps /\ ~HoldsMax(h.texts, h.image, h.id)) => ExchangedWithNeighbour(h)
          /\ (h.op \in MoveDowns /\ ~HoldsMin(h.texts, h.image, h.id)) => ExchangedWithNeighbour(h)

\* C4: a move up of an element holding the maximum layer, and a move down of
\* an element holding the minimum layer, leave every layer unchanged
C4_NoOpAtExtreme ==
    hist # << >> =>
      LET h == hist[1]
      IN  /\ (h.op \in MoveUps /\ HoldsMax(h.texts, h.image, h.id)) => SameLayers(h.texts, h.image)
          /\ (h.op \in MoveDowns /\ HoldsMin(h.texts, h.image, h.id)) => SameLayers(h.texts, h.image)

C4_Witness ==
    /\ hist # << >>
    /\ hist[1].op = "moveLayerUp"
    /\ Len(hist[1].texts) >= 2
    /\ HoldsMax(hist[1].texts, hist[1].image, hist[1].id)
    /\ \E e \in ElementsOf(hist[1].texts) : ~HoldsMax(hist[1].texts, hist[1].image, e)

UpThenDown == Len(hist) = 2 /\ hist[1].op \in MoveDowns /\ hist[2].op \in MoveUps

\* C5 as stated: a move up of X followed at once by a move down of X leaves
\* every element with the layer it had before the two calls
C5_UpDownRestores == UpThenDown => SameLayers(hist[2].texts, hist[2].image)

\* C5 amended: the same, for an X that is below the maximum layer and shares
\* its layer with no other element
C5_UpDownRestoresBelowMax ==
    ( /\ UpThenDown
      /\ ~HoldsMax(hist[2].texts, hist[2].image, hist[2].id)
      /\ Holders(hist[2].texts, hist[2].image, LayerIn(hist[2].texts, hist[2].image, hist[2].id)) = 1 )
    => SameLayers(hist[2].texts, hist[2].image)

C5_Witness ==
    /\ UpThenDown
    /\ hist[1].op = "moveLayerDown"
    /\ Len(hist[2].texts) >= 3
    /\ ~HoldsMax(hist[2].texts, hist[2].image, hist[2].id)
    /\ ~HoldsMin(hist[2].texts, hist[2].image, hist[2].id)
    /\ Holders(hist[2].texts, hist[2].image, LayerIn(hist[2].texts, hist[2].image, hist[2].id)) = 1
    /\ LayerSeq(hist[1].texts) # LayerSeq(hist[2].texts)
    /\ SameLayers(hist[2].texts, hist[2].image)

\* the layers of the elements present in the scene: the texts, and the image
\* once it has a source
PresentLayers(texts, img, url) ==
    { texts[i].layer : i \in 1..Len(texts) } \cup (IF url # "" THEN { img } ELSE {})

\* C6: a newly created element gets the layer one above the maximum layer of
\* all existing elements, the image included, or 0 when there is none
C6_NewLayerAboveAll ==
    (hist # << >> /\ hist[1].op \in Creations) =>
      LET h == hist[1]
          present == PresentLayers(h.texts, h.image, h.url)
      IN  textElements[Len(textElements)].layer = IF present = {} THEN 0 ELSE SetMax(present) + 1

\* C7: from the empty scene two texts get layers 0 and 1, an image added then
\* gets layer 2, and a move down of that image swaps it with the text at layer 1
C7_Scenario ==
    /\ (Len(hist) = 2 /\ hist[1].op \in Creations /\ hist[2].op \in Creations /\ hist[2].texts = << >>)
          => LayerSeq(textElements) = << 0, 1 >>
    /\ (hist # << >> /\ hist[1].op = "upload" /\ hist[1].url = "" /\ LayerSeq(hist[1].texts) = << 0, 1 >>)
          => imageLayer = 2
    /\ (hist # << >> /\ hist[1].op = "moveImageLayerDown" /\ hist[1].image = 2
            /\ LayerSeq(hist[1].texts) = << 0, 1 >>)
          => (imageLayer = 1 /\ LayerSeq(textElements) = << 0, 2 >>)

\* C8: the compositor emits one entry per text element, one entry for the
\* image exactly when it has a source, in non-decreasing order of layer
C8_ComposeSortedOnePerElement ==
    LET le == LayerElements
    IN  /\ Len(le) = Len(textElements) + (IF imageUrl # "" THEN 1 ELSE 0)
        /\ \A i \in 1..Len(textElements) :
              Cardinality({ k \in 1..Len(le) : le[k].type = "text" /\ le[k].id = textElements[i].id
                                                /\ le[k].layer = textElements[i].layer }) = 1
        /\ Cardinality({ k \in 1..Len(le) : le[k].type = "image" /\ le[k].layer = imageLayer })
              = (IF imageUrl # "" THEN 1 ELSE 0)
        /\ \A k \in 1..(Len(le) - 1) : le[k].layer <= le[k + 1].layer

C8_Witness ==
    /\ imageUrl # ""
    /\ LayerSeq(textElements) = << 2, 0, 1 >>
    /\ [ k \in 1..Len(LayerElements) |-> LayerElements[k].layer ] = << 0, 0, 1, 2 >>

(***************************************************************************)
(* Properties of the batch export                                          *)
(***************************************************************************)
BatchExits == { "batchComplete", "batchFailed" }

\* C9: a batch export over N distinct colours that completes successfully
\* delivers an archive of exactly N entries, one per colour under the name
\* made of the design name and that colour, none overwritten or skipped
C9_ArchiveHasEveryVariant ==
    batch.toast = "complete" =>
      /\ Cardinality(batch.archive) = Len(batch.colors)
      /\ \A i \in 1..Len(batch.colors) :
            Cardinality({ e \in batch.archive : e.name = FileName(batch.name, batch.colors[i]) }) = 1

\* C10: on every exit of a started batch export, after all variants or after
\* a failed capture, the background colour and the guide visibility of the
\* mounted page equal the values they had when the export started
C10_BatchRestoresBoard ==
    (hist # << >> /\ hist[1].op \in BatchExits /\ mounted) =>
      /\ backgroundColor = batch.startColor
      /\ showGuides = batch.startGuides

C10_Witness ==
    /\ hist # << >> /\ hist[1].op = "batchFailed" /\ mounted
    /\ Len(batch.colors) = 2 /\ batch.i = 2
    /\ batch.colors[2] # batch.startColor
    /\ batch.startGuides
    /\ backgroundColor = batch.startColor
    /\ showGuides

\* C11: when the capture of a variant fails the run is over at that variant
\* (no later colour is applied, nothing is captured), no archive is delivered,
\* one error is reported, and on the mounted page the background colour and
\* the guides are back at their values from before the batch
C11_CaptureFailureAbortsBatch ==
    (batch.toast = "failed" /\ batch.i <= Len(batch.colors)) =>
        /\ batch.pc = "done"
        /\ batch.inflight = {}
        /\ batch.archive = {}
        /\ batch.errors = 1
        /\ (hist[1].op = "batchFailed" /\ mounted) =>
               backgroundColor = batch.startColor /\ showGuides = batch.startGuides

\* the first of two variants failed; its colour was not the one of the board
C11_Witness ==
    /\ batch.toast = "failed" /\ batch.i = 1 /\ Len(batch.colors) = 2
    /\ hist[1].op = "batchFailed" /\ mounted
    /\ batch.colors[1] # batch.startColor
    /\ backgroundColor = batch.startColor
    /\ batch.startGuides /\ showGuides

\* C13: the variants are handled one after the other: at most one raster
\* conversion is pending, it is the one of the variant whose colour is on the
\* board, and a colour is applied only when every earlier variant is settled
C13_OneCaptureAtATime ==
    /\ Cardinality(batch.inflight) <= 1
    /\ batch.inflight \subseteq { batch.i }
    /\ batch.inflight # {} => batch.pc = "capture"
    /\ (mounted /\ batch.pc \in { "frame", "settle", "capture" }) =>
          \A j \in 1..(batch.i - 1) : FileName(batch.name, batch.colors[j]) \in { e.name : e \in batch.zip }

\* the second variant is being captured, the first one is in the zip
C13_Witness ==
    /\ batch.pc = "capture" /\ batch.i = 2 /\ batch.inflight = { 2 }
    /\ mounted
    /\ Cardinality(batch.zip) = 1

\* C14: a batch that is running with its dialog closed still comes to its
\* finally block: it ends, and on the mounted page the background colour and
\* the guides are then at their values from before the batch
C14_ClosedDialogStillRestores ==
    (Running /\ ~batchExportOpen) ~>
        (/\ hist # << >> /\ hist[1].op \in BatchExits
         /\ mounted => (backgroundColor = batch.startColor /\ showGuides = batch.startGuides))

\* a failed run has ended with its dialog closed: it was closed while running
C14_Witness ==
    /\ hist # << >> /\ hist[1].op = "batchFailed"
    /\ ~batchExportOpen /\ mounted
    /\ batch.colors[1] # batch.startColor
    /\ backgroundColor = batch.startColor /\ showGuides = batch.startGuides /\ batch.startGuides

\* C20: every raster is captured from a board that shows the colour of its
\* variant and no guides
C20_CapturedUnderVariantColor ==
    batch.pc = "capture" =>
        /\ batch.svgData.color = batch.colors[batch.i]
        /\ batch.svgData.guides = FALSE

\* C12: when the single export leaves its frame wait, by serializing the
\* board or by failing to, the guides are back at the value they had before
\* the export (the encoding that follows does not touch them)
C12_ExportRestoresGuides ==
    (mounted /\ hist # << >> /\ hist[1].op \in { "exportSerialized", "exportFailed" }
        /\ export.failedAt # "encode") =>
        showGuides = export.startGuides

\* C15: whatever the scale and the rotation, the centre of the drawn box of
\* the image is its logical centre: the box is drawn from (cx - width/2,
\* cy - height/2) and turned about its own centre
C15_ImageCentreFixed ==
    LET box == DrawnBox(imagePosition, imageScale, imageRotation, imageFlipped)
        t == ImageTransform(imagePosition, imageScale, imageRotation, imageFlipped)
    IN  /\ box.left + box.right = 2 * imagePosition.x
        /\ box.top + box.bottom = 2 * imagePosition.y
        /\ 2 * t.translate.x = 2 * imagePosition.x - ImageWidth(imageScale)
        /\ 2 * t.translate.y = 2 * imagePosition.y - ImageHeight(imageScale)
        /\ 2 * t.rotate.cx = ImageWidth(imageScale) /\ 2 * t.rotate.cy = ImageHeight(imageScale)

\* an image dragged off its default centre, enlarged and turned by a quarter
C15_Witness ==
    /\ imageUrl # "" /\ hist # << >> /\ hist[1].op = "imageControl"
    /\ imagePosition # DefaultImagePosition
    /\ imageScale = 1000 /\ imageRotation = 90

\* C17: after a pointer-up or a pointer-cancel no drag session is active and
\* the elements are where the last pointer-move left them
C17_DragEndsOnUpAndCancel ==
    (hist # << >> /\ hist[1].op \in { "dragEnd", "pointerCancel" }) =>
        /\ dragging = NoDrag
        /\ textElements = hist[1].texts
        /\ imagePosition = hist[1].pos

\* a design stored before there were layers: no element holds one
Legacy(config) ==
    /\ "imageLayer" \notin config.has
    /\ \A i \in 1..Len(config.textElements) : ~config.textElements[i].hasLayer

\* C16: after a load every text element that was stored without a layer has
\* its index in the list as layer, the other ones have the layer stored, and
\* the elements of a legacy design (the image too) have pairwise distinct layers
C16_LoadAssignsDistinctLayers ==
    (hist # << >> /\ hist[1].op = "load") =>
        /\ Len(textElements) = Len(loaded.config.textElements)
        /\ \A i \in 1..Len(textElements) :
              textElements[i].layer = IF loaded.config.textElements[i].hasLayer
                                      THEN loaded.config.textElements[i].layer ELSE i - 1
        /\ Legacy(loaded.config) =>
              /\ \A i, j \in 1..Len(textElements) : i # j => textElements[i].layer # textElements[j].layer
              /\ imageUrl # "" => \A i \in 1..Len(textElements) : textElements[i].layer # imageLayer

\* a text element but for one of its fields
Except(t, field) == [ f \in (DOMAIN t) \ { field } |-> t[f] ]

\* C18: a change of the size or of the colour of the selected text box
\* changes that attribute of that box only: its other attributes, its
\* position and layer and all the other boxes are as before
C18_StyleChangeIsLocal ==
    (hist # << >> /\ hist[1].op \in { "setTextSize", "setTextColor" }) =>
        /\ Len(textElements) = Len(hist[1].texts)
        /\ \A i \in 1..Len(textElements) :
              IF textElements[i].id = hist[1].id
              THEN LET field == IF hist[1].op = "setTextSize" THEN "fontSize" ELSE "color"
                   IN  Except(textElements[i], field) = Except(hist[1].texts[i], field)
              ELSE textElements[i] = hist[1].texts[i]

ErrorExits == { "exportFailed", "batchFailed", "uploadFailed", "readerLoaded" }

\* the layers and the centres are those from before the last handler
SceneAsBefore ==
    /\ textElements = hist[1].texts
    /\ imageLayer = hist[1].image
    /\ imagePosition = hist[1].pos

\* C19: handling a failed single export, a failed batch export or a failed
\* upload, and moving an element that is already at the top or at the
\* bottom, leave the layer and the centre of every element as they were
C19_ErrorsKeepLayersAndCentres ==
    hist # << >> =>
        /\ hist[1].op \in ErrorExits => SceneAsBefore
        /\ (hist[1].op = "moveLayerUp" /\ HoldsMax(hist[1].texts, hist[1].image, hist[1].id))
              => SceneAsBefore
        /\ (hist[1].op = "moveLayerDown" /\ HoldsMin(hist[1].texts, hist[1].image, hist[1].id))
              => SceneAsBefore

\* a scene with a text box and a dragged image after a failed single export,
\* a failed batch export and, last, a failed upload
C19_Witness ==
    /\ hist # << >> /\ hist[1].op = "uploadFailed"
    /\ export.result = "failed" /\ batch.toast = "failed"
    /\ textElements # << >> /\ imageUrl # ""
    /\ imagePosition # DefaultImagePosition

\* C21: the single export serializes the board only while the guides are
\* hidden, whatever the user does to the guides during the frame wait
C21_SerializedWithoutGuides ==
    (hist # << >> /\ hist[1].op = "exportSerialized") => export.svgData.guides = FALSE

\* C30: at most one batch export is in progress at a time, and every batch
\* export that was started reaches its finally block: it terminates, the
\* batchExporting flag of the mounted page returns to false and the export
\* control can be used again
C30_OneBatchThatTerminates ==
    /\ [](~batch.overlapped)
    /\ [](Running => (~mounted \/ batchExporting))
    /\ (Running ~> (batch.pc = "done" /\ (mounted => ~batchExporting)))

C30_Witness ==
    /\ batch.pc = "done" /\ Len(batch.colors) = 2 /\ batch.errors = 0
    /\ mounted /\ ~batchExporting /\ batchExportOpen /\ Len(batchColors) # 0

(***************************************************************************)
(* Properties of the layer controls                                        *)
(***************************************************************************)
Unmoved == [ texts |-> textElements, image |-> imageLayer ]

PushedAt(e) == SetMin({ p \in 1..Len(Pushed) : Pushed[p] = e })

\* C25 as stated: entries of equal layer appear in creation order, so an
\* image that was uploaded after the texts were created comes after every
\* text of its layer
C25_EqualLayersInCreationOrder ==
    (hist # << >> /\ hist[1].op = "upload" /\ hist[1].url = "" /\ imageUrl # "") =>
        LET le == LayerElements
        IN  \A k, l \in 1..Len(le) :
                (le[k].type = "image" /\ le[l].type = "text" /\ le[l].layer = le[k].layer) => l < k

\* C25: the compositor is deterministic under duplicate layers: entries of
\* equal layer keep the order in which they were pushed, the image first
\* and then the texts in the order of the text list
C25_EqualLayersInPushOrder ==
    LET le == LayerElements
    IN  \A k, l \in 1..Len(le) :
            (k < l /\ le[k].layer = le[l].layer) =>
                /\ PushedAt(le[k]) < PushedAt(le[l])
                /\ le[l].type = "text"
                /\ le[k].type = "text" =>
                      \E i, j \in 1..Len(textElements) :
                          i < j /\ textElements[i].id = le[k].id /\ textElements[j].id = le[l].id

\* the image and two texts share one layer and a lower-layer text follows
\* them in the list
C25_Witness ==
    /\ imageUrl # "" /\ Len(textElements) = 3
    /\ textElements[1].layer = imageLayer /\ textElements[2].layer = imageLayer
    /\ textElements[3].layer < imageLayer
    /\ LayerElements[2].type = "image"
    /\ LayerElements[3].id = textElements[1].id /\ LayerElements[4].id = textElements[2].id

(***************************************************************************)
(* Properties of the deletion                                              *)
(***************************************************************************)
DeleteStep == hist' # hist /\ hist' # << >> /\ hist'[1].op = "deleteTextBox"

\* C26: deleting a text removes exactly that element and renumbers nothing:
\* every other text keeps its place in the list, its layer, its centre and
\* its attributes, the image keeps its layer, source and centre, and the
\* selection is cleared if the deleted text was selected and kept otherwise
C26_DeleteRemovesOneAndKeepsTheRest ==
    [][ DeleteStep =>
          LET id == hist'[1].id
              at == { i \in 1..Len(textElements) : textElements[i].id = id }
          IN  /\ Cardinality(at) = 1
              /\ Len(textElements') = Len(textElements) - 1
              /\ \A i \in 1..Len(textElements) :
                    \/ i \in at
                    \/ \E j \in 1..Len(textElements') :
                          /\ textElements'[j] = textElements[i]
                          /\ j = IF i < SetMin(at) THEN i ELSE i - 1
              /\ imageLayer' = imageLayer /\ imageUrl' = imageUrl
              /\ imagePosition' = imagePosition
              /\ selectedTextId' = IF selectedTextId = id THEN NoId ELSE selectedTextId ]_vars

\* a text below two others was deleted while one of the others stays selected
C26_Witness ==
    /\ hist # << >> /\ hist[1].op = "deleteTextBox"
    /\ Len(hist[1].texts) = 3 /\ Len(textElements) = 2
    /\ \A i \in 1..2 : textElements[i].layer > Find(hist[1].texts, hist[1].id).layer
    /\ selectedTextId # NoId /\ Has(textElements, selectedTextId)

(***************************************************************************)
(* Properties of the flipped image                                         *)
(***************************************************************************)
\* C27: the centre of the drawn box of the image is its logical centre for
\* both values of the flip flag: a flipped image is mirrored in place
C27_FlipKeepsCentre ==
    LET box == DrawnBox(imagePosition, imageScale, imageRotation, imageFlipped)
    IN  (imageUrl # "" /\ imageFlipped) =>
            /\ box.left + box.right = 2 * imagePosition.x
            /\ box.top + box.bottom = 2 * imagePosition.y

(***************************************************************************)
(* Properties of saving and loading                                        *)
(***************************************************************************)
\* the part of the state that a snapshot is made of
Scene ==
    [ backgroundColor |-> backgroundColor, showGuides |-> showGuides, imageUrl |-> imageUrl,
      imageScale |-> [ percent |-> imageScale, exact |-> TRUE ], imageRotation |-> imageRotation,
      imageOpacity |-> [ percent |-> imageOpacity, exact |-> TRUE ], imageFlipped |-> imageFlipped,
      imagePosition |-> imagePosition, imageLayer |-> imageLayer, textElements |-> textElements ]

\* C28: save followed by load is a round trip: loading the snapshot that
\* getCurrentConfig made of a scene gives back its background colour, guide
\* visibility, image source, scale, rotation, opacity, flip, centre and
\* layer, and its text elements with their layers
C28_SaveThenLoadRoundTrip ==
    (hist # << >> /\ hist[1].op = "save") => LoadedState(loaded.config) = Scene

(***************************************************************************)
(* Properties of the drag                                                  *)
(***************************************************************************)
DragMoveStep == hist' # hist /\ hist' # << >> /\ hist'[1].op = "dragMove"

\* the fields of a text element other than its centre
Uncentred(t) == [ t EXCEPT !.x = 0, !.y = 0 ]

\* C22: over a drag session with its pointer-down at p0 and pointer-moves up
\* to pn, the centre of the dragged element is its centre at the
\* pointer-down plus (pn - p0), whether or not the handlers were refreshed
\* between two pointer-moves
C22_DragFollowsPointer ==
    (Len(hist) = 2 /\ hist[1].op = "dragMove" /\ hist[2].op = "dragStart") =>
        LET dx == hist[1].at.x - hist[2].at.x
            dy == hist[1].at.y - hist[2].at.y
        IN  IF hist[2].id = NoId
            THEN imagePosition = [ x |-> hist[2].pos.x + dx, y |-> hist[2].pos.y + dy ]
            ELSE \A i \in 1..Len(textElements) :
                    textElements[i].id = hist[2].id =>
                        /\ textElements[i].x = Find(hist[2].texts, hist[2].id).x + dx
                        /\ textElements[i].y = Find(hist[2].texts, hist[2].id).y + dy

C29_DragMovesOnlyTheDragged ==
    [][ DragMoveStep =>
          LET id == hist'[1].id
          IN  /\ imageLayer' = imageLayer /\ imageUrl' = imageUrl
              /\ imageScale' = imageScale /\ imageRotation' = imageRotation
              /\ imageOpacity' = imageOpacity /\ imageFlipped' = imageFlipped
              /\ selectedTextId' = selectedTextId
              /\ Len(textElements') = Len(textElements)
              /\ \A i \in 1..Len(textElements) :
                    /\ Uncentred(textElements'[i]) = Uncentred(textElements[i])
                    /\ textElements[i].id # id => textElements'[i] = textElements[i]
              /\ id # NoId => imagePosition' = imagePosition
              /\ id = NoId => textElements' = textElements
              /\ (id # NoId /\ ~Has(textElements, id)) => textElements' = textElements ]_vars

\* the pointer of a text drag has moved away from where the handler last
\* saw it, after the text was deleted, and another text and the image remain
C29_Witness ==
    /\ hist # << >> /\ hist[1].op = "dragMove" /\ hist[1].id # NoId
    /\ ~Has(hist[1].texts, hist[1].id)
    /\ listener # NoListener /\ listener.dragStart # hist[1].at
    /\ Len(textElements) = 1 /\ imageUrl # ""

(***************************************************************************)
(* Properties of the failed upload                                         *)
(***************************************************************************)
RejectStep == hist' # hist /\ hist' # << >> /\ hist'[1].op = "uploadRejected"

InitialScene ==
    [ backgroundColor |-> White, showGuides |-> TRUE, imageUrl |-> "",
      imageScale |-> [ percent |-> 100, exact |-> TRUE ], imageRotation |-> 0,
      imageOpacity |-> [ percent |-> 100, exact |-> TRUE ], imageFlipped |-> FALSE,
      imagePosition |-> DefaultImagePosition, imageLayer |-> 0, textElements |-> << >> ]

\* C32: after handleReset every field of the snapshot that getCurrentConfig
\* makes has its initial default, from any reachable state
C32_ResetRestoresDefaults ==
    (hist # << >> /\ hist[1].op = "reset") => Scene = InitialScene

(***************************************************************************)
(* Properties of the rasters                                               *)
(***************************************************************************)
\* C33: every raster that the single export and the batch export produce
\* is 800 pixels wide and 2625 pixels high, which is exactly the 32:105
\* proportion of the board
C33_RastersAre800By2625 ==
    LET Sized(blob) == /\ blob.width = 800 /\ blob.height = 2625
                       /\ blob.width * Board.height = blob.height * Board.width
    IN  /\ export.result = "exported" => Sized(export.blob)
        /\ \A e \in batch.zip \cup batch.archive : Sized(e.blob)

\* a single export has delivered its file and a batch of two colours its archive
C33_Witness ==
    /\ export.result = "exported" /\ export.blob # NoBlob
    /\ batch.toast = "complete" /\ Cardinality(batch.archive) = 2
====
